---- MODULE Spec2Model ----
(***************************************************************************)
(* Termibbl server: the orchestrator (GameServer), its single room         *)
(* (GameRoom "main") with the turn engine (Skribbl), the per-connection    *)
(* session tasks (UserSession), the event queue (EventQueue/EventSender)   *)
(* and the wire codec (NetworkMessage).                                    *)
(***************************************************************************)
EXTENDS Integers, Sequences, FiniteSets, TLC

(* ---------------------------------------------------------------- bounds *)
\* session tasks that can be alive at once (slots are reused after exit)
MaxSessions == 2
\* size of the connection id space explored (the code draws a u8: 256 ids)
NumIds == 2
\* client requests in flight in the orchestrator's queue
MaxQueue == 1
\* GameOpts.number_of_rounds
NumRounds == 1
\* correct guesses scored per player before the client stops guessing
MaxScore == 100
\* wall-clock seconds read by get_time_now
MaxNow == 0
\* connection ids that join and leave the room in RoomSpec
NumPlayers == 3
\* GameOpts.round_duration of the room, in seconds
RoundDuration == 60

(* ------------------------------------------------------- program constants *)
REQUIRED_PLAYERS == 1
ROUND_DURATION == 120

Slots == 1..MaxSessions
Ids == 0..(NumIds - 1)
NowValues == 0..MaxNow
\* the name a peer asks for (or generate_name draws), by connection id
ClientNames(id) == {IF id % 2 = 0 THEN "alice" ELSE "bob"}
RoomKeys == {"main"}
NoRoomKey == "nope"
Words == << <<"a", "b">>, <<"b", "c">> >>
ChatTexts == { <<"A", "b">>, <<"b">>, <<"b", "c">> }
Points == { <<0, 0>> }
Colors == { "Red" }

None == [some |-> FALSE]
Some(v) == [some |-> TRUE, v |-> v]

Max(a, b) == IF a >= b THEN a ELSE b
Min(a, b) == IF a <= b THEN a ELSE b

RECURSIVE SortedSeq(_)
SortedSeq(S) ==
    IF S = {} THEN <<>>
    ELSE LET m == CHOOSE x \in S : \A y \in S : x <= y
         IN <<m>> \o SortedSeq(S \ {m})

Perms(S) == { p \in [1..Cardinality(S) -> S] : \A a \in S : \E i \in DOMAIN p : p[i] = a }

Remove(f, k) == [x \in (DOMAIN f) \ {k} |-> f[x]]
Insert(f, k, v) == [x \in (DOMAIN f) \cup {k} |-> IF x = k THEN v ELSE f[x]]

(* ------------------------------------------------------------ world.rs *)
Username(name, id) == <<name, id>>
NameOf(u) == u[1]
IdOf(u) == u[2]

NewPlayer(username) == [name |-> username, score |-> 0, solved_current_round |-> FALSE]

\* impl From<(Username, &str)> for DrawingWord: whitespace and '-' pre-revealed
GuessWord(who, word) ==
    [tag |-> "Guess",
     hints |-> [i \in {j \in 1..Len(word) : word[j] \in {" ", "-"}} |-> word[i]],
     who |-> who,
     word_len |-> Len(word)]

DrawWord(text) == [tag |-> "Draw", text |-> text]

\* Game::remaining_round_time
RemainingRoundTime(game, now) == Max(0, game.turn.end_instant - now)

(* ------------------------------------------------------------- room.rs *)
ToLower(ch) ==
    CASE ch = "A" -> "a"
      [] ch = "B" -> "b"
      [] ch = "C" -> "c"
      [] OTHER -> ch

\* a comparison of characters that tells upper case from lower case
EqExact(x, y) == x = y

EqIgnoreCase(x, y) == ToLower(x) = ToLower(y)

\* the matrix cell matrix[j][i] of levenshtein_distance
RECURSIVE LevCell(_, _, _, _)
LevCell(w1, w2, j, i) ==
    IF j = 0 THEN i
    ELSE IF i = 0 THEN j
    ELSE IF EqIgnoreCase(w1[i], w2[j]) THEN LevCell(w1, w2, j - 1, i - 1)
    ELSE 1 + Min(Min(LevCell(w1, w2, j, i - 1), LevCell(w1, w2, j - 1, i)),
                 LevCell(w1, w2, j - 1, i - 1))

levenshtein_distance(a, b) == LevCell(a, b, Len(b), Len(a))

calculate_score_increase(remaining_time) ==
    50 + (((remaining_time * 100) \div ROUND_DURATION) \div 2)

\* Skribbl::new
SkribblNew ==
    [game |-> [canvas |-> << >>,
               turn |-> [last_round |-> NumRounds,
                         state |-> "Drawing",
                         word |-> DrawWord(<<>>),
                         end_instant |-> 0,
                         current_round |-> 0]],
     current_word |-> <<>>,
     players_left_in_round |-> <<>>,
     words |-> 1]

NoSkribbl == [none |-> TRUE]

is_last_turn(sk) == Len(sk.players_left_in_round) <= 1

\* is_last_round that lets one more round start
is_last_round_late(sk) == sk.game.turn.current_round = sk.game.turn.last_round + 1

is_last_round(sk) == sk.game.turn.current_round = sk.game.turn.last_round

\* Skribbl::next_turn: the next word of the cycle, the head of players_left_in_round draws
next_turn(sk) ==
    LET word == Words[sk.words]
    IN [sk EXCEPT !.current_word = word,
                  !.words = (sk.words % Len(Words)) + 1,
                  !.game.turn.word = GuessWord(Head(sk.players_left_in_round), word),
                  !.players_left_in_round = Tail(sk.players_left_in_round)]

\* Skribbl::start_round
skribbl_start_round(sk, players) ==
    next_turn([sk EXCEPT !.game.turn.current_round = @ + 1,
                         !.players_left_in_round = [i \in DOMAIN players |-> players[i].name]])

\* usize: 64 bits, kept as four 16-bit limbs, the most significant first
UsizeOnes == <<65535, 65535, 65535, 65535>>
Usize(n) == <<0, 0, (n \div 65536) % 65536, n % 65536>>

\* the operator ! on a usize: every bit flipped
BitNot(x) == [i \in DOMAIN x |-> UsizeOnes[i] - x[i]]

\* x < y on usize values
UsizeLess(x, y) ==
    \E i \in DOMAIN x : x[i] < y[i] /\ \A j \in 1..(i - 1) : x[j] = y[j]

\* Skribbl::reveal_random_char: the outcomes of one call, the character being
\* chosen at random among those not revealed yet; choose(..).unwrap() panics
\* when there is none
reveal_random_char(sk) ==
    LET word == sk.game.turn.word
        hints == word.hints
        hidden == {idx \in 1..Len(sk.current_word) : idx \notin DOMAIN hints}
    IN  IF word.tag # "Guess" THEN {[state |-> sk, panicked |-> TRUE]}
        ELSE IF UsizeLess(BitNot(Usize(Cardinality(DOMAIN hints))), Usize(word.word_len \div 2))
        THEN {[state |-> sk, panicked |-> FALSE]}
        ELSE IF hidden = {} THEN {[state |-> sk, panicked |-> TRUE]}
        ELSE {[state |-> [sk EXCEPT !.game.turn.word.hints =
                                        Insert(hints, idx, sk.current_word[idx])],
               panicked |-> FALSE] : idx \in hidden}

\* Skribbl::get_drawing_player (defined on the Guess form only)
get_drawing_player(sk) == IdOf(sk.game.turn.word.who)

is_drawing(sk, id) == get_drawing_player(sk) = id

(* ------------------------------------------------ message.rs: ToClient *)
ChatSystem(text) == [type |-> "Chat", kind |-> "System", text |-> text]
ChatUser(from, text) == [type |-> "Chat", kind |-> "User", from |-> from, text |-> text]
DrawMsg(draw) == [type |-> "Draw", draw |-> draw]
PlayerConnect(player) == [type |-> "PlayerConnect", player |-> player]
PlayerDisconnect(username) == [type |-> "PlayerDisconnect", username |-> username]
Kicked(reason) == [type |-> "Kicked", reason |-> reason]
TurnStart(turn) == [type |-> "TurnStart", turn |-> turn]
RoomStateChange(state) == [type |-> "RoomStateChange", state |-> state]
JoinRoom(username, players, initial_state) ==
    [type |-> "JoinRoom", username |-> username, player_list |-> players,
     initial_state |-> initial_state]

(* ------------------------------------------ session.rs: a session's queue *)
\* UserSession::send reads only JoinRoom (the name) and Kicked; every other
\* notification is written to the peer and changes nothing in the session,
\* so a session's queue keeps these two kinds and the rest is recorded in `sent`.
QueueEntry(msg) ==
    [type |-> msg.type, name |-> IF msg.type = "JoinRoom" THEN NameOf(msg.username) ELSE ""]

\* EventSender::send on a session's queue: fails once the session task has
\* returned and dropped its EventQueue
SenderOpen(c, slot) == c.sessions[slot].status = "running"

Panic(c) == [c EXCEPT !.panicked = TRUE]

(* ------------------------------------------------------------- room.rs *)
\* PlayerSession::send_message: an Err from the sender is logged and dropped
send_message(c, slot, id, msg) ==
    LET open == SenderOpen(c, slot)
    IN [c EXCEPT !.sent = Append(@, [to |-> id, msg |-> msg, ok |-> open]),
                 !.sessions[slot].queue =
                     IF open /\ msg.type \in {"JoinRoom", "Kicked"}
                     THEN Append(@, QueueEntry(msg)) ELSE @]

\* GameRoom::send and GameRoom::send_system_msg
send(c, player_id, msg) ==
    IF player_id \in DOMAIN c.room.connected_sessions
    THEN send_message(c, c.room.connected_sessions[player_id].addr, player_id, msg)
    ELSE c

RECURSIVE SendEach(_, _, _)
SendEach(c, ids, msg) ==
    IF ids = <<>> THEN c
    ELSE SendEach(send(c, Head(ids), msg), Tail(ids), msg)

\* GameRoom::broadcast (the map's iteration order is taken ascending by id)
broadcast(c, msg) == SendEach(c, SortedSeq(DOMAIN c.room.connected_sessions), msg)

\* GameRoom::broadcast_except
broadcast_except(c, msg, player_id) ==
    SendEach(c, SortedSeq((DOMAIN c.room.connected_sessions) \ {player_id}), msg)

broadcast_system_msg(c, text) == broadcast(c, ChatSystem(text))

\* GameRoom::player_list: the members in the map's iteration order `order`
MembersIn(room, order) == SelectSeq(order, LAMBDA i : i \in DOMAIN room.connected_sessions)

player_list(room, order) ==
    LET ids == MembersIn(room, order)
    IN [i \in DOMAIN ids |-> room.connected_sessions[ids[i]].player]

\* GameRoom::game_state
game_state(room) ==
    IF room.state = "Playing"
    THEN [tag |-> "Playing", game |-> room.skribbl.game]
    ELSE [tag |-> room.state]

\* GameRoom::update_state
update_state(c, state, sk) ==
    LET c1 == [c EXCEPT !.room.state = state, !.room.skribbl = sk]
    IN broadcast(c1, RoomStateChange(game_state(c1.room)))

\* end_game that leaves an empty room as it is
end_game_nonempty(c) ==
    IF DOMAIN c.room.connected_sessions = {} THEN c
    ELSE update_state(c, IF c.room.owner_id.some THEN "Lobby" ELSE "Waiting", NoSkribbl)

\* GameRoom::end_game
end_game(c) ==
    update_state(c, IF c.room.owner_id.some THEN "Lobby" ELSE "Waiting", NoSkribbl)

\* start_round telling every member the word in plaintext
start_round_plaintext(c, order) ==
    IF c.room.state # "Playing" THEN Panic(c)
    ELSE IF is_last_round(c.room.skribbl) THEN end_game(c)
    ELSE LET sk == skribbl_start_round(c.room.skribbl, player_list(c.room, order))
             c1 == [c EXCEPT !.room.skribbl = sk]
             turn == sk.game.turn
         IN broadcast(c1, TurnStart([turn EXCEPT !.word = DrawWord(sk.current_word)]))

\* GameRoom::start_round
start_round(c, order) ==
    IF c.room.state # "Playing" THEN Panic(c)
    ELSE IF is_last_round(c.room.skribbl) THEN end_game(c)
    ELSE LET sk == skribbl_start_round(c.room.skribbl, player_list(c.room, order))
             c1 == [c EXCEPT !.room.skribbl = sk]
             turn == sk.game.turn
             drawing_user == get_drawing_player(sk)
         IN send(broadcast_except(c1, TurnStart(turn), drawing_user),
                 drawing_user,
                 TurnStart([turn EXCEPT !.word = DrawWord(sk.current_word)]))

\* GameRoom::start_turn
start_turn(c, order) ==
    IF c.room.state # "Playing" THEN Panic(c)
    ELSE IF is_last_turn(c.room.skribbl) THEN start_round(c, order)
    ELSE [c EXCEPT !.room.skribbl = next_turn(@)]

\* start_game waiting for one player more than required
start_game_short(c, order) ==
    IF Cardinality(DOMAIN c.room.connected_sessions) > REQUIRED_PLAYERS
    THEN start_round(update_state(c, "Playing", SkribblNew), order)
    ELSE c

\* GameRoom::start_game
start_game(c, order) ==
    IF Cardinality(DOMAIN c.room.connected_sessions) >= REQUIRED_PLAYERS
    THEN start_round(update_state(c, "Playing", SkribblNew), order)
    ELSE c

\* get_drawing_player on the Draw form of the word is unreachable!()
DrawerUndefined(room) == room.state = "Playing" /\ room.skribbl.game.turn.word.tag # "Guess"

\* GameRoom::disconnect
disconnect(c, player_id, order) ==
    IF player_id \notin DOMAIN c.room.connected_sessions THEN c
    ELSE LET username == c.room.connected_sessions[player_id].player.name
             c1 == [c EXCEPT !.room.connected_sessions = Remove(@, player_id)]
             c2 == broadcast_system_msg(c1, <<NameOf(username), " left the rooom">>)
             c3 == broadcast(c2, PlayerDisconnect(username))
         IN IF DOMAIN c3.room.connected_sessions = {} THEN end_game(c3)
            ELSE IF c3.room.state = "Playing"
                 THEN IF DrawerUndefined(c3.room) THEN Panic(c3)
                      ELSE IF is_drawing(c3.room.skribbl, player_id)
                           THEN start_turn(c3, order)
                           ELSE c3
                 ELSE c3

\* connect announcing the player after the session has been inserted
connect_insert_first(c, username, addr, order) ==
    LET player == NewPlayer(username)
        c1 == [c EXCEPT !.room.connected_sessions =
                            Insert(@, IdOf(username), [addr |-> addr, player |-> player])]
        c2 == broadcast(c1, PlayerConnect(player))
        players == { c2.room.connected_sessions[i].player : i \in DOMAIN c2.room.connected_sessions }
        c3 == send(c2, IdOf(username), JoinRoom(username, players, game_state(c2.room)))
        c4 == broadcast_system_msg(c3, <<NameOf(username), " joined">>)
    IN IF c4.room.state = "Waiting" THEN start_game(c4, order) ELSE c4

\* GameRoom::connect
connect(c, username, addr, order) ==
    LET player == NewPlayer(username)
        c1 == broadcast(c, PlayerConnect(player))
        c2 == [c1 EXCEPT !.room.connected_sessions =
                             Insert(@, IdOf(username), [addr |-> addr, player |-> player])]
        players == { c2.room.connected_sessions[i].player : i \in DOMAIN c2.room.connected_sessions }
        c3 == send(c2, IdOf(username), JoinRoom(username, players, game_state(c2.room)))
        c4 == broadcast_system_msg(c3, <<NameOf(username), " joined">>)
    IN IF c4.room.state = "Waiting" THEN start_game(c4, order) ELSE c4

\* the canvas after a Draw action
ApplyDraw(canvas, draw) ==
    CASE draw.tag = "Clear" -> << >>
      [] draw.tag = "Paint" ->
            [p \in (DOMAIN canvas) \cup {draw.points[i] : i \in DOMAIN draw.points} |->
                IF \E i \in DOMAIN draw.points : draw.points[i] = p THEN draw.color ELSE canvas[p]]
      [] draw.tag = "Erase" -> Remove(canvas, draw.point)

\* on_paint_msg taking draw actions from every member
on_paint_msg_unguarded(c, sender_id, draw_action) ==
    IF c.room.state # "Playing" THEN c
    ELSE broadcast_except(
             [c EXCEPT !.room.skribbl.game.canvas = ApplyDraw(@, draw_action)],
             DrawMsg(draw_action), sender_id)

\* on_paint_msg echoing the draw action to its sender
on_paint_msg_echo(c, sender_id, draw_action) ==
    IF c.room.state # "Playing" THEN c
    ELSE IF DrawerUndefined(c.room) THEN Panic(c)
    ELSE IF ~is_drawing(c.room.skribbl, sender_id) THEN c
    ELSE broadcast(
             [c EXCEPT !.room.skribbl.game.canvas = ApplyDraw(@, draw_action)],
             DrawMsg(draw_action))

\* GameRoom::on_paint_msg
on_paint_msg(c, sender_id, draw_action) ==
    IF c.room.state # "Playing" THEN c
    ELSE IF DrawerUndefined(c.room) THEN Panic(c)
    ELSE IF ~is_drawing(c.room.skribbl, sender_id) THEN c
    ELSE broadcast_except(
             [c EXCEPT !.room.skribbl.game.canvas = ApplyDraw(@, draw_action)],
             DrawMsg(draw_action), sender_id)

\* do_guess without the flat 50 points
do_guess_no_flat(sk, player, guess, now) ==
    LET remaining_time == RemainingRoundTime(sk.game, now)
        dist == levenshtein_distance(guess, sk.current_word)
    IN [dist |-> dist,
        player |-> IF dist = 0
                   THEN [player EXCEPT !.score = @ + calculate_score_increase(remaining_time)]
                   ELSE player]

\* do_guess marking the player as having solved the word
do_guess_solves(sk, player, guess, now) ==
    LET remaining_time == RemainingRoundTime(sk.game, now)
        dist == levenshtein_distance(guess, sk.current_word)
    IN [dist |-> dist,
        player |-> IF dist = 0
                   THEN [player EXCEPT !.score = @ + 50 + calculate_score_increase(remaining_time),
                                       !.solved_current_round = TRUE]
                   ELSE player]

\* Skribbl::do_guess: the distance, and the player after scoring
do_guess(sk, player, guess, now) ==
    LET remaining_time == RemainingRoundTime(sk.game, now)
        dist == levenshtein_distance(guess, sk.current_word)
    IN [dist |-> dist,
        player |-> IF dist = 0
                   THEN [player EXCEPT !.score = @ + 50 + calculate_score_increase(remaining_time)]
                   ELSE player]

\* get_non_guessing_players returning every member
get_all_players(room, order) == MembersIn(room, order)

\* GameRoom::get_non_guessing_players, in the map's iteration order
get_non_guessing_players(room, order) ==
    SelectSeq(MembersIn(room, order),
              LAMBDA i : room.connected_sessions[i].player.solved_current_round
                         \/ is_drawing(room.skribbl, i))

\* the loop of on_chat_msg over the non-guessing players: send(..).unwrap()
RECURSIVE SendUnwrapEach(_, _, _)
SendUnwrapEach(c, ids, msg) ==
    IF ids = <<>> THEN c
    ELSE LET slot == c.room.connected_sessions[Head(ids)].addr
             c1 == send_message(c, slot, Head(ids), msg)
         IN IF SenderOpen(c, slot) THEN SendUnwrapEach(c1, Tail(ids), msg)
            ELSE Panic(c1)

\* on_chat_msg showing a near miss to the whole room
on_chat_msg_near_shown(c, sender, chat_msg, order, now) ==
    IF c.room.state # "Playing" THEN broadcast(c, ChatUser(sender, chat_msg))
    ELSE IF IdOf(sender) \notin DOMAIN c.room.connected_sessions THEN Panic(c)
    ELSE IF DrawerUndefined(c.room) THEN Panic(c)
    ELSE LET session == c.room.connected_sessions[IdOf(sender)]
             sk == c.room.skribbl
             player_can_guess ==
                 ~(is_drawing(sk, IdOf(sender)) \/ session.player.solved_current_round)
         IN IF player_can_guess
            THEN LET g == do_guess(sk, session.player, chat_msg, now)
                     c1 == [c EXCEPT !.room.connected_sessions[IdOf(sender)].player = g.player]
                 IN CASE g.dist = 0 ->
                            broadcast_system_msg(c1, <<NameOf(sender), " guessed it!">>)
                      [] OTHER -> broadcast(c1, ChatUser(sender, chat_msg))
            ELSE SendUnwrapEach(c, get_non_guessing_players(c.room, order),
                                ChatUser(sender, chat_msg))

\* on_chat_msg telling only the guesser of a correct guess
on_chat_msg_private(c, sender, chat_msg, order, now) ==
    IF c.room.state # "Playing" THEN broadcast(c, ChatUser(sender, chat_msg))
    ELSE IF IdOf(sender) \notin DOMAIN c.room.connected_sessions THEN Panic(c)
    ELSE IF DrawerUndefined(c.room) THEN Panic(c)
    ELSE LET session == c.room.connected_sessions[IdOf(sender)]
             sk == c.room.skribbl
             player_can_guess ==
                 ~(is_drawing(sk, IdOf(sender)) \/ session.player.solved_current_round)
         IN IF player_can_guess
            THEN LET g == do_guess(sk, session.player, chat_msg, now)
                     c1 == [c EXCEPT !.room.connected_sessions[IdOf(sender)].player = g.player]
                 IN CASE g.dist = 0 ->
                            send(c1, IdOf(sender),
                                 ChatSystem(<<NameOf(sender), " guessed it!">>))
                      [] g.dist = 1 ->
                            send(c1, IdOf(sender), ChatSystem(<<"You're very close!">>))
                      [] OTHER -> broadcast(c1, ChatUser(sender, chat_msg))
            ELSE SendUnwrapEach(c, get_non_guessing_players(c.room, order),
                                ChatUser(sender, chat_msg))

\* GameRoom::on_chat_msg
on_chat_msg(c, sender, chat_msg, order, now) ==
    IF c.room.state # "Playing" THEN broadcast(c, ChatUser(sender, chat_msg))
    ELSE IF IdOf(sender) \notin DOMAIN c.room.connected_sessions THEN Panic(c)
    ELSE IF DrawerUndefined(c.room) THEN Panic(c)
    ELSE LET session == c.room.connected_sessions[IdOf(sender)]
             sk == c.room.skribbl
             player_can_guess ==
                 ~(is_drawing(sk, IdOf(sender)) \/ session.player.solved_current_round)
         IN IF player_can_guess
            THEN LET g == do_guess(sk, session.player, chat_msg, now)
                     c1 == [c EXCEPT !.room.connected_sessions[IdOf(sender)].player = g.player]
                 IN CASE g.dist = 0 ->
                            broadcast_system_msg(c1, <<NameOf(sender), " guessed it!">>)
                      [] g.dist = 1 ->
                            send(c1, IdOf(sender), ChatSystem(<<"You're very close!">>))
                      [] OTHER -> broadcast(c1, ChatUser(sender, chat_msg))
            ELSE SendUnwrapEach(c, get_non_guessing_players(c.room, order),
                                ChatUser(sender, chat_msg))

(* ----------------------------------------------------------- server.rs *)
RoomRequestEv(from, req) == [type |-> "RoomRequest", from |-> from, req |-> req]
InRoomMessageEv(from, msg) == [type |-> "InRoomMessage", from |-> from, msg |-> msg]
\* Disconnect { id }; `task` is the slot of the session task that sent it: it is
\* not part of the message and no handler reads it
DisconnectEv(id, task) == [type |-> "Disconnect", id |-> id, task |-> task]

\* on_client_disconnect that drops the user from the registry only
on_client_disconnect_registry(c, id, order) ==
    IF id \notin DOMAIN c.connected_users THEN c
    ELSE [c EXCEPT !.connected_users = Remove(@, id)]

\* GameServer::on_client_disconnect
on_client_disconnect(c, id, order) ==
    IF id \notin DOMAIN c.connected_users THEN c
    ELSE LET user == c.connected_users[id]
             c1 == [c EXCEPT !.connected_users = Remove(@, id)]
         IN IF user.game.some /\ user.game.v.room_key \in RoomKeys
            THEN disconnect(c1, id, order)
            ELSE c1

\* kick_user that sends Kicked and waits for the session to disconnect itself
kick_user_keep(c, user_id, reason, order) ==
    IF user_id \notin DOMAIN c.connected_users THEN c
    ELSE send_message(c, c.connected_users[user_id].sender, user_id, Kicked(reason))

\* GameServer::kick_user
kick_user(c, user_id, reason, order) ==
    IF user_id \notin DOMAIN c.connected_users THEN c
    ELSE LET slot == c.connected_users[user_id].sender
             c1 == send_message(c, slot, user_id, Kicked(reason))
         IN IF SenderOpen(c, slot)
            THEN on_client_disconnect(c1, user_id, order)
            ELSE c1

\* GameServer::on_user_game_msg
on_user_game_msg(c, from, msg, order, now) ==
    IF IdOf(from) \notin DOMAIN c.connected_users THEN c
    ELSE IF ~c.connected_users[IdOf(from)].game.some THEN c
    ELSE IF c.connected_users[IdOf(from)].game.v.room_key \notin RoomKeys THEN c
    ELSE CASE msg.tag = "Chat" -> on_chat_msg(c, from, msg.text, order, now)
           [] msg.tag = "Draw" -> on_paint_msg(c, IdOf(from), msg.draw)
           [] OTHER -> kick_user(c, IdOf(from),
                                 "You are being naughty, got a unexpected message.", order)

\* on_room_request that lets a request for an unknown room pass unanswered
on_room_request_silent(c, username, action, order) ==
    LET id == IdOf(username)
    IN IF id \notin DOMAIN c.connected_users THEN c
       ELSE IF c.connected_users[id].game.some
            THEN kick_user(c, id, "You are not allowed to join multiple game rooms.", order)
       ELSE IF action.tag # "Join" THEN kick_user(c, id, "Unimplemented feature", order)
       ELSE IF action.room_key \notin RoomKeys THEN c
       ELSE LET c1 == connect(c, username, c.connected_users[id].sender, order)
            IN [c1 EXCEPT !.connected_users[id].game =
                              Some([room_key |-> action.room_key, name |-> NameOf(username)])]

\* GameServer::on_room_request
on_room_request(c, username, action, order) ==
    LET id == IdOf(username)
    IN IF id \notin DOMAIN c.connected_users THEN c
       ELSE IF c.connected_users[id].game.some
            THEN kick_user(c, id, "You are not allowed to join multiple game rooms.", order)
       ELSE IF action.tag # "Join" THEN kick_user(c, id, "Unimplemented feature", order)
       ELSE IF action.room_key \notin RoomKeys THEN kick_user(c, id, "RoomNotFound", order)
       ELSE LET c1 == connect(c, username, c.connected_users[id].sender, order)
            IN [c1 EXCEPT !.connected_users[id].game =
                              Some([room_key |-> action.room_key, name |-> NameOf(username)])]

(* ---------------------------------------------------------------- state *)
VARIABLES
    sessions,         \* the UserSession tasks, by slot
    event_queue,      \* GameServer.event_queue: the events sent and not yet received
    connected_users,  \* GameServer.connected_users
    game_rooms,       \* GameServer.game_rooms
    panicked,         \* the orchestrator task has panicked
    sent,             \* the sends of the orchestrator's last step, in order
    last,             \* the last step taken and the event it handled
    recv,             \* EventQueue.recv: the channel behind EventSender.tx
    immediate_recv,   \* EventQueue.immediate_recv: behind EventSender.tx_immediate
    received,         \* the last receive operation of the queue's owner and its result
    wire,             \* bytes an Encoder has written that the reader has not read yet
    src,              \* the Decoder's buffer (BytesMut)
    in_flight,        \* the messages encoded and not decoded yet
    decoded,          \* the result of the last decode call
    clock,            \* the wall clock of UserSession::run, read modulo ClockWrap
    last_hb,          \* seconds since UserSession.last_hb, capped above the timeout
    hb,               \* seconds until the interval hb of run ticks next
    pc,               \* the position of the session task in run
    server_msg,       \* the local server_msg of the current iteration of run
    framed,           \* UserSession.framed: decoded frames waiting, messages written
    arrived,          \* how many frames and notifications have reached the session
    lev,              \* the last call of levenshtein_distance and what it returned
    skribbl           \* a Skribbl in the middle of a turn, for reveal_random_char

server_vars == <<sessions, event_queue, connected_users, game_rooms, panicked, sent, last>>
queue_vars == <<recv, immediate_recv, received>>
codec_vars == <<wire, src, in_flight, decoded>>
loop_vars == <<clock, last_hb, hb, pc, server_msg, framed, arrived>>
word_vars == <<lev, skribbl>>
vars == <<server_vars, queue_vars, codec_vars, loop_vars, word_vars>>

\* the parts of the state each specification leaves alone
QueueIdle == recv = <<>> /\ immediate_recv = <<>> /\ received = [op |-> "none"]
LoopIdle ==
    /\ clock = 0
    /\ last_hb = 0
    /\ hb = 0
    /\ pc = "while"
    /\ server_msg = None
    /\ framed = [inbound |-> <<>>, written |-> <<>>]
    /\ arrived = [frames |-> 0, notes |-> 0]
CodecIdle == wire = <<>> /\ src = <<>> /\ in_flight = <<>> /\ decoded = [res |-> "Init"]
WordIdle == lev = [op |-> "none"] /\ skribbl = [state |-> NoSkribbl, panicked |-> FALSE]

FreeSession == [status |-> "free", id |-> 0, state |-> "Idle", name |-> "", queue |-> <<>>]

\* GameRoom::new
GameRoomNew(owner_id) ==
    [state |-> IF owner_id.some THEN "Lobby" ELSE "Waiting",
     owner_id |-> owner_id,
     connected_sessions |-> << >>,
     skribbl |-> NoSkribbl]

NoEvent == [type |-> "None"]

Step(op, ev) == [op |-> op, ev |-> ev]

Quiet(op) == [op |-> op, ev |-> NoEvent]

\* GameServer::new
Init ==
    /\ sessions = [s \in Slots |-> FreeSession]
    /\ event_queue = <<>>
    /\ connected_users = << >>
    /\ game_rooms = [k \in RoomKeys |-> GameRoomNew(None)]
    /\ panicked = FALSE
    /\ sent = <<>>
    /\ last = Quiet("Init")
    /\ QueueIdle
    /\ CodecIdle
    /\ LoopIdle
    /\ WordIdle

Ctx ==
    [connected_users |-> connected_users, room |-> game_rooms["main"],
     sessions |-> sessions, sent |-> <<>>, panicked |-> FALSE]

\* a session task that has returned is gone once the registry has dropped its
\* sender and its Disconnect has been received
Referenced(users, queue, s) ==
    \/ \E id \in DOMAIN users : users[id].sender = s
    \/ \E i \in DOMAIN queue : queue[i].type = "Disconnect" /\ queue[i].task = s

Reclaim(ss, users, queue) ==
    [s \in DOMAIN ss |-> IF ss[s].status = "exited" /\ ~Referenced(users, queue, s)
                     THEN FreeSession ELSE ss[s]]

Commit(c) ==
    /\ connected_users' = c.connected_users
    /\ game_rooms' = [game_rooms EXCEPT !["main"] = c.room]
    /\ sessions' = Reclaim(c.sessions, c.connected_users, Tail(event_queue))
    /\ sent' = c.sent
    /\ panicked' = c.panicked

\* GameServer::gen_unique_id and on_client_connect
OnClientConnect(s, id) ==
    /\ UNCHANGED <<queue_vars, codec_vars, loop_vars, word_vars>>
    /\ ~panicked
    /\ sessions[s].status = "free"
    /\ \A t \in Slots : sessions[t].status = "free" => s <= t
    /\ id \notin DOMAIN connected_users
    /\ sessions' = [sessions EXCEPT ![s] = [FreeSession EXCEPT !.status = "running", !.id = id]]
    /\ connected_users' = Insert(connected_users, id, [sender |-> s, game |-> None])
    /\ sent' = <<>>
    /\ last' = Step("Connect", [type |-> "Connect", id |-> id, slot |-> s])
    /\ UNCHANGED <<event_queue, game_rooms, panicked>>

\* GameServer::listen_on: one event received and handled
HandleRoomRequest(order) ==
    /\ UNCHANGED <<queue_vars, codec_vars, loop_vars, word_vars>>
    /\ ~panicked
    /\ event_queue # <<>>
    /\ Head(event_queue).type = "RoomRequest"
    /\ event_queue' = Tail(event_queue)
    /\ Commit(on_room_request(Ctx, Head(event_queue).from, Head(event_queue).req, order))
    /\ last' = Step("RoomRequest", Head(event_queue))

HandleInRoomMessage(order, now) ==
    /\ UNCHANGED <<queue_vars, codec_vars, loop_vars, word_vars>>
    /\ ~panicked
    /\ event_queue # <<>>
    /\ Head(event_queue).type = "InRoomMessage"
    /\ event_queue' = Tail(event_queue)
    /\ Commit(on_user_game_msg(Ctx, Head(event_queue).from, Head(event_queue).msg, order, now))
    /\ last' = Step("InRoomMessage", Head(event_queue))

HandleDisconnect(order) ==
    /\ UNCHANGED <<queue_vars, codec_vars, loop_vars, word_vars>>
    /\ ~panicked
    /\ event_queue # <<>>
    /\ Head(event_queue).type = "Disconnect"
    /\ event_queue' = Tail(event_queue)
    /\ Commit(on_client_disconnect(Ctx, Head(event_queue).id, order))
    /\ last' = Step("Disconnect", Head(event_queue))

(* ---------------------------------------------------------- session.rs *)
Draws ==
    {[tag |-> "Clear"]}
    \cup {[tag |-> "Erase", point |-> p] : p \in Points}
    \cup {[tag |-> "Paint", points |-> <<p>>, color |-> col] : p \in Points, col \in Colors}

RoomRequests ==
    {[tag |-> "Find"]} \cup {[tag |-> "Join", room_key |-> k] : k \in RoomKeys \cup {NoRoomKey}}

\* the requests the peer of connection id sends (Login is handled like
\* ListRoom in every state)
ToServer(id) ==
    {[tag |-> "Ping"], [tag |-> "ListRoom"]}
    \cup {[tag |-> "Chat", text |-> t] : t \in ChatTexts}
    \cup {[tag |-> "Draw", draw |-> d] : d \in Draws}
    \cup {[tag |-> "RequestRoom", name |-> n, req |-> r] : n \in ClientNames(id), r \in RoomRequests}

\* the event UserSession::handle_msg sends for a request, if any
Forwarded(ses, msg) ==
    IF msg.tag = "Ping" THEN None
    ELSE IF ses.state = "Idle"
         THEN IF msg.tag = "RequestRoom"
              THEN Some(RoomRequestEv(Username(msg.name, ses.id), msg.req))
              ELSE None
    ELSE IF ses.state = "InGame"
         THEN Some(InRoomMessageEv(Username(ses.name, ses.id), msg))
    ELSE None

\* players whose score has reached the bound stop guessing
ScoreCapped(msg, id) ==
    /\ msg.tag = "Chat"
    /\ id \in DOMAIN game_rooms["main"].connected_sessions
    /\ game_rooms["main"].connected_sessions[id].player.score >= MaxScore

\* a session that takes itself to be in the game as soon as it has asked
ClientMessageEager(s, msg) ==
    /\ UNCHANGED <<queue_vars, codec_vars, loop_vars, word_vars>>
    /\ sessions[s].status = "running"
    /\ sessions[s].state # "Stop"
    /\ ~ScoreCapped(msg, sessions[s].id)
    /\ LET ev == Forwarded(sessions[s], msg)
       IN IF ev.some
          THEN /\ Len(event_queue) < MaxQueue
               /\ event_queue' = Append(event_queue, ev.v)
          ELSE UNCHANGED event_queue
    /\ sessions' = [sessions EXCEPT
           ![s].state = IF msg.tag = "RequestRoom" /\ @ = "Idle" THEN "InGame" ELSE @,
           ![s].name = IF msg.tag = "RequestRoom" /\ sessions[s].state = "Idle"
                       THEN msg.name ELSE @]
    /\ sent' = <<>>
    /\ last' = Quiet("ClientMessage")
    /\ UNCHANGED <<connected_users, game_rooms, panicked>>

\* UserSession::run, the branch of a frame decoded from the peer
ClientMessage(s, msg) ==
    /\ UNCHANGED <<queue_vars, codec_vars, loop_vars, word_vars>>
    /\ sessions[s].status = "running"
    /\ sessions[s].state # "Stop"
    /\ ~ScoreCapped(msg, sessions[s].id)
    /\ LET ev == Forwarded(sessions[s], msg)
       IN IF ev.some
          THEN /\ Len(event_queue) < MaxQueue
               /\ event_queue' = Append(event_queue, ev.v)
          ELSE UNCHANGED event_queue
    /\ sent' = <<>>
    /\ last' = Quiet("ClientMessage")
    /\ UNCHANGED <<sessions, connected_users, game_rooms, panicked>>

\* UserSession::run, the branch of a notification from the orchestrator, and
\* UserSession::send
SessionForward(s) ==
    /\ UNCHANGED <<queue_vars, codec_vars, loop_vars, word_vars>>
    /\ sessions[s].status = "running"
    /\ sessions[s].state # "Stop"
    /\ sessions[s].queue # <<>>
    /\ LET m == Head(sessions[s].queue)
       IN sessions' = [sessions EXCEPT
              ![s].queue = Tail(@),
              ![s].state = IF m.type = "JoinRoom" THEN "InGame"
                           ELSE IF m.type = "Kicked" THEN "Stop" ELSE @,
              ![s].name = IF m.type = "JoinRoom" THEN m.name ELSE @]
    /\ sent' = <<>>
    /\ last' = Quiet("SessionForward")
    /\ UNCHANGED <<event_queue, connected_users, game_rooms, panicked>>

\* a session task that returns without notifying the orchestrator
SessionExitSilent(s) ==
    /\ UNCHANGED <<queue_vars, codec_vars, loop_vars, word_vars>>
    /\ sessions[s].status = "running"
    /\ event_queue' = event_queue
    /\ sessions' = [sessions EXCEPT ![s].status = "exited", ![s].queue = <<>>]
    /\ sent' = <<>>
    /\ last' = Quiet("SessionExit")
    /\ UNCHANGED <<connected_users, game_rooms, panicked>>

\* UserSession::run leaves its loop (state Stop, heartbeat timeout, decode
\* error) and notifies the orchestrator; the task returns, its queue is dropped
SessionExit(s) ==
    /\ UNCHANGED <<queue_vars, codec_vars, loop_vars, word_vars>>
    /\ sessions[s].status = "running"
    /\ event_queue' = Append(event_queue, DisconnectEv(sessions[s].id, s))
    /\ sessions' = [sessions EXCEPT ![s].status = "exited", ![s].queue = <<>>]
    /\ sent' = <<>>
    /\ last' = Quiet("SessionExit")
    /\ UNCHANGED <<connected_users, game_rooms, panicked>>

\* The iteration orders of connected_sessions a step can observe. The order
\* shows in a round's snapshot of the players (start_round) and in which sends
\* precede a failed one; elsewhere one order stands for all.
OrdersOf(ids, shows) == IF shows THEN Perms(ids) ELSE {SortedSeq(ids)}

RoundMayStart(room) == room.state \in {"Waiting", "Playing"}

SomeSenderClosed(room) ==
    \E i \in DOMAIN room.connected_sessions :
        sessions[room.connected_sessions[i].addr].status # "running"

Next ==
    \/ \E s \in Slots, id \in Ids : OnClientConnect(s, id)
    \/ \E order \in OrdersOf(Ids, RoundMayStart(game_rooms["main"])) : HandleRoomRequest(order)
    \/ \E order \in OrdersOf(Ids, RoundMayStart(game_rooms["main"])
                                     \/ SomeSenderClosed(game_rooms["main"])),
          now \in NowValues : HandleInRoomMessage(order, now)
    \/ \E order \in OrdersOf(Ids, RoundMayStart(game_rooms["main"])) : HandleDisconnect(order)
    \/ \E s \in Slots : \E msg \in ToServer(sessions[s].id) : ClientMessage(s, msg)
    \/ \E s \in Slots : SessionForward(s)
    \/ \E s \in Slots : SessionExit(s)

Spec == Init /\ [][Next]_vars

(***************************************************************************)
(* RoomSpec: GameRoom "main" driven through its public operations, in the  *)
(* order the orchestrator can call them (connect for an id that is not a   *)
(* member, disconnect / on_chat_msg / on_paint_msg for a member), with up  *)
(* to NumPlayers connection ids. The sender of player id is slot id + 1.   *)
(***************************************************************************)
PlayerIds == 0..(NumPlayers - 1)
AddrOf(id) == id + 1
Members == DOMAIN game_rooms["main"].connected_sessions

RoomInit ==
    /\ sessions = [s \in 1..NumPlayers |-> FreeSession]
    /\ event_queue = <<>>
    /\ connected_users = << >>
    /\ game_rooms = [k \in RoomKeys |-> GameRoomNew(None)]
    /\ panicked = FALSE
    /\ sent = <<>>
    /\ last = Quiet("Init")
    /\ QueueIdle
    /\ CodecIdle
    /\ LoopIdle
    /\ WordIdle

RoomCommit(c) ==
    /\ game_rooms' = [game_rooms EXCEPT !["main"] = c.room]
    /\ sessions' = [s \in DOMAIN c.sessions |->
                       IF (s - 1) \in DOMAIN c.room.connected_sessions
                       THEN [c.sessions[s] EXCEPT !.queue = <<>>]
                       ELSE FreeSession]
    /\ sent' = c.sent
    /\ panicked' = c.panicked
    /\ UNCHANGED <<event_queue, connected_users>>

\* on_room_request reaches GameRoom::connect; the joiner's session task may
\* already have returned (open = FALSE)
RoomConnect(id, name, open, order) ==
    /\ UNCHANGED <<queue_vars, codec_vars, loop_vars, word_vars>>
    /\ ~panicked
    /\ id \notin Members
    /\ LET c == [Ctx EXCEPT !.sessions[AddrOf(id)] =
                     [FreeSession EXCEPT !.status = IF open THEN "running" ELSE "exited",
                                         !.id = id]]
       IN RoomCommit(connect(c, Username(name, id), AddrOf(id), order))
    /\ last' = Step("connect", RoomRequestEv(Username(name, id), [tag |-> "Join", room_key |-> "main"]))

\* a member's session task returns; its Disconnect is still to be handled
RoomSessionExit(id) ==
    /\ UNCHANGED <<queue_vars, codec_vars, loop_vars, word_vars>>
    /\ id \in Members
    /\ sessions[AddrOf(id)].status = "running"
    /\ sessions' = [sessions EXCEPT ![AddrOf(id)].status = "exited"]
    /\ sent' = <<>>
    /\ last' = Quiet("SessionExit")
    /\ UNCHANGED <<event_queue, connected_users, game_rooms, panicked>>

\* on_client_disconnect reaches GameRoom::disconnect
RoomDisconnect(id, order) ==
    /\ UNCHANGED <<queue_vars, codec_vars, loop_vars, word_vars>>
    /\ ~panicked
    /\ id \in Members
    /\ RoomCommit(disconnect(Ctx, id, order))
    /\ last' = Step("disconnect", DisconnectEv(id, AddrOf(id)))

\* on_user_game_msg reaches GameRoom::on_chat_msg
RoomChat(id, text, order, now) ==
    /\ UNCHANGED <<queue_vars, codec_vars, loop_vars, word_vars>>
    /\ ~panicked
    /\ id \in Members
    /\ ~ScoreCapped([tag |-> "Chat"], id)
    /\ LET from == game_rooms["main"].connected_sessions[id].player.name
       IN /\ RoomCommit(on_chat_msg(Ctx, from, text, order, now))
          /\ last' = Step("on_chat_msg", InRoomMessageEv(from, [tag |-> "Chat", text |-> text]))

\* on_user_game_msg reaches GameRoom::on_paint_msg
RoomPaint(id, draw) ==
    /\ UNCHANGED <<queue_vars, codec_vars, loop_vars, word_vars>>
    /\ ~panicked
    /\ id \in Members
    /\ LET from == game_rooms["main"].connected_sessions[id].player.name
       IN /\ RoomCommit(on_paint_msg(Ctx, id, draw))
          /\ last' = Step("on_paint_msg", InRoomMessageEv(from, [tag |-> "Draw", draw |-> draw]))

RoomNext ==
    \/ \E id \in PlayerIds : \E name \in ClientNames(id), open \in BOOLEAN,
          order \in OrdersOf(PlayerIds, game_rooms["main"].state = "Waiting") :
           RoomConnect(id, name, open, order)
    \/ \E id \in PlayerIds : RoomSessionExit(id)
    \/ \E id \in PlayerIds,
          order \in OrdersOf(PlayerIds, game_rooms["main"].state = "Playing") :
           RoomDisconnect(id, order)
    \/ \E id \in PlayerIds, text \in ChatTexts,
          order \in OrdersOf(PlayerIds, SomeSenderClosed(game_rooms["main"])),
          now \in NowValues :
           RoomChat(id, text, order, now)
    \/ \E id \in PlayerIds, draw \in Draws : RoomPaint(id, draw)

RoomSpec == RoomInit /\ [][RoomNext]_vars

\* The room's operations under the scheduling the orchestrator gives them:
\* every chat message and draw action a client keeps sending is handled.
\* Nothing obliges a client to leave, and the room has no step of its own
\* (GameRoom::run is never spawned, Skribbl::end_turn is never called).
RoomRequestsHandled ==
    \/ \E id \in PlayerIds, text \in ChatTexts,
          order \in OrdersOf(PlayerIds, SomeSenderClosed(game_rooms["main"])),
          now \in NowValues :
           RoomChat(id, text, order, now)
    \/ \E id \in PlayerIds, draw \in Draws : RoomPaint(id, draw)

RoomFairSpec == RoomInit /\ [][RoomNext]_vars /\ WF_vars(RoomRequestsHandled)

\* ---------------------------------------------------------------------------
\* events.rs: EventQueue and EventSender.  A queued value carries the method
\* that sent it (class) next to its payload, so that a receive can be compared
\* with the priority the sender asked for.
\* ---------------------------------------------------------------------------
MaxPending == 3
NumEvents == 2

MaxDelay == 1

EventValues == 1..NumEvents
Delays == 0..MaxDelay
Pending == recv \o immediate_recv

\* EventQueue::default: three fresh unbounded channels, all empty
EventQueueDefault ==
    /\ recv = <<>>
    /\ immediate_recv = <<>>
    /\ received = [op |-> "none"]

\* EventSender::send: self.tx.send(value)
EventSender_send(value) ==
    /\ Len(Pending) < MaxPending
    /\ recv' = Append(recv, [class |-> "Normal", value |-> value])
    /\ received' = [op |-> "send"]
    /\ UNCHANGED <<immediate_recv, server_vars, codec_vars, loop_vars, word_vars>>

\* EventSender::send_immediate: self.tx.send(value), the same channel as send
EventSender_send_immediate(value) ==
    /\ Len(Pending) < MaxPending
    /\ recv' = Append(recv, [class |-> "Immediate", value |-> value])
    /\ received' = [op |-> "send_immediate"]
    /\ UNCHANGED <<immediate_recv, server_vars, codec_vars, loop_vars, word_vars>>

\* EventSender::send_after: the body sends nothing, and the receiver of
\* tx_timer was dropped by EventQueue::default, so the value reaches no channel
EventSender_send_after(value, after) ==
    /\ received' = [op |-> "send_after", value |-> value, after |-> after]
    /\ UNCHANGED <<recv, immediate_recv, server_vars, codec_vars, loop_vars, word_vars>>

\* the channels a Selector over recv and immediate_recv finds ready
Ready == {ch \in {"recv", "immediate_recv"} :
            IF ch = "recv" THEN recv # <<>> ELSE immediate_recv # <<>>}

\* a receive that takes the newest value of the channel
TakeLastFrom(ch, op) ==
    IF ch = "recv"
    THEN /\ received' = [op |-> op, value |-> Some(recv[Len(recv)])]
         /\ recv' = SubSeq(recv, 1, Len(recv) - 1)
         /\ UNCHANGED immediate_recv
    ELSE /\ received' = [op |-> op, value |-> Some(immediate_recv[Len(immediate_recv)])]
         /\ immediate_recv' = SubSeq(immediate_recv, 1, Len(immediate_recv) - 1)
         /\ UNCHANGED recv

\* take the head of channel ch as the result of operation op
TakeFrom(ch, op) ==
    IF ch = "recv"
    THEN /\ received' = [op |-> op, value |-> Some(Head(recv))]
         /\ recv' = Tail(recv)
         /\ UNCHANGED immediate_recv
    ELSE /\ received' = [op |-> op, value |-> Some(Head(immediate_recv))]
         /\ immediate_recv' = Tail(immediate_recv)
         /\ UNCHANGED recv

\* EventQueue::recv: blocks until one of the channels has a value
EventQueue_recv ==
    /\ IF immediate_recv # <<>>
       THEN TakeFrom("immediate_recv", "recv")
       ELSE \E ch \in Ready : TakeFrom(ch, "recv")
    /\ UNCHANGED <<server_vars, codec_vars, loop_vars, word_vars>>

\* EventQueue::recv_timeout: as recv, None when the timeout passes first
EventQueue_recv_timeout ==
    /\ IF immediate_recv # <<>>
       THEN TakeFrom("immediate_recv", "recv_timeout")
       ELSE IF Ready = {}
            THEN /\ received' = [op |-> "recv_timeout", value |-> None]
                 /\ UNCHANGED <<recv, immediate_recv>>
            ELSE \E ch \in Ready : TakeFrom(ch, "recv_timeout")
    /\ UNCHANGED <<server_vars, codec_vars, loop_vars, word_vars>>

\* EventQueue::try_recv: immediate_recv.try_recv().or_else(recv.try_recv()).ok()
EventQueue_try_recv ==
    /\ IF immediate_recv # <<>>
       THEN TakeFrom("immediate_recv", "try_recv")
       ELSE IF recv # <<>>
            THEN TakeFrom("recv", "try_recv")
            ELSE /\ received' = [op |-> "try_recv", value |-> None]
                 /\ UNCHANGED <<recv, immediate_recv>>
    /\ UNCHANGED <<server_vars, codec_vars, loop_vars, word_vars>>

ServerIdle ==
    /\ sessions = [s \in Slots |-> FreeSession]
    /\ event_queue = <<>>
    /\ connected_users = << >>
    /\ game_rooms = [k \in RoomKeys |-> GameRoomNew(None)]
    /\ panicked = FALSE
    /\ sent = <<>>
    /\ last = Quiet("Init")

QueueInit == EventQueueDefault /\ ServerIdle /\ CodecIdle /\ LoopIdle /\ WordIdle

QueueNext ==
    \/ \E value \in EventValues : EventSender_send(value)
    \/ \E value \in EventValues : EventSender_send_immediate(value)
    \/ \E value \in EventValues, after \in Delays : EventSender_send_after(value, after)
    \/ EventQueue_recv
    \/ EventQueue_recv_timeout
    \/ EventQueue_try_recv

QueueSpec == QueueInit /\ [][QueueNext]_vars

\* the owning loop keeps receiving
QueueFairSpec ==
    /\ QueueInit /\ [][QueueNext]_vars
    /\ WF_vars(EventQueue_recv)
    /\ WF_vars(EventQueue_recv_timeout)
    /\ WF_vars(EventQueue_try_recv)

\* ---------------------------------------------------------------------------
\* message.rs: the NetworkMessage<T> codec.  A byte string is kept as a
\* sequence of runs [b |-> byte, n |-> count], adjacent runs holding different
\* bytes, so that payloads of 2^16 bytes stay small.  bincode is a bijection
\* between the values of T and their payloads: the value whose payload is n
\* bytes of k is [kind |-> k, size |-> n], the value with an empty payload is
\* [kind |-> 0, size |-> 0].
\* ---------------------------------------------------------------------------
MaxFrames == 2
MaxPrefix == 6

PayloadSizes == {0, 1, 65535, 65536}
PayloadKinds == {1, 7}
UnitMessage == [kind |-> 0, size |-> 0]
NetMessages ==
    {UnitMessage} \cup {[kind |-> k, size |-> n] : k \in PayloadKinds, n \in PayloadSizes \ {0}}

Run(byte, n) == IF n = 0 THEN <<>> ELSE <<[b |-> byte, n |-> n]>>

RECURSIVE BLen(_)
BLen(bytes) == IF bytes = <<>> THEN 0 ELSE bytes[1].n + BLen(Tail(bytes))

\* BufMut::put: append
BCat(x, y) ==
    IF x = <<>> THEN y
    ELSE IF y = <<>> THEN x
    ELSE IF x[Len(x)].b = y[1].b
         THEN SubSeq(x, 1, Len(x) - 1) \o Run(y[1].b, x[Len(x)].n + y[1].n) \o Tail(y)
         ELSE x \o y

RECURSIVE BTake(_, _)
\* BytesMut::split_to: the first k bytes
BTake(bytes, k) ==
    IF k = 0 \/ bytes = <<>> THEN <<>>
    ELSE IF bytes[1].n <= k THEN <<bytes[1]>> \o BTake(Tail(bytes), k - bytes[1].n)
    ELSE Run(bytes[1].b, k)

RECURSIVE BDrop(_, _)
\* Buf::advance: all but the first k bytes
BDrop(bytes, k) ==
    IF k = 0 \/ bytes = <<>> THEN bytes
    ELSE IF bytes[1].n <= k THEN BDrop(Tail(bytes), k - bytes[1].n)
    ELSE Run(bytes[1].b, bytes[1].n - k) \o Tail(bytes)

RECURSIVE BAt(_, _)
BAt(bytes, i) == IF i <= bytes[1].n THEN bytes[1].b ELSE BAt(Tail(bytes), i - bytes[1].n)

RECURSIVE PutBE(_, _)
\* put_u16 / put_u32 / put_u64: v in width big-endian bytes
PutBE(v, width) ==
    IF width = 0 THEN <<>> ELSE BCat(PutBE(v \div 256, width - 1), Run(v % 256, 1))

RECURSIVE ReadBE(_, _)
\* read_u16 / read_u32 / read_u64 ::<BigEndian> of the first width bytes
ReadBE(bytes, width) ==
    IF width = 0 THEN 0 ELSE ReadBE(bytes, width - 1) * 256 + BAt(bytes, width)

\* bincode::serialize
Serialize(msg) == Run(msg.kind, msg.size)

\* bincode::deserialize
Deserialize(data) ==
    IF data = <<>> THEN Some(UnitMessage)
    ELSE IF Len(data) = 1 /\ data[1].b \in PayloadKinds
         THEN Some([kind |-> data[1].b, size |-> data[1].n])
         ELSE None

\* encode taking 65536 for a length that fits in 16 bits
encode_narrow(msg, buf) ==
    LET payload == Serialize(msg)
        msg_len == BLen(payload)
        header  == IF msg_len <= 65536
                   THEN BCat(Run(2, 1), PutBE(msg_len, 2))
                   ELSE IF msg_len \div 65536 <= 65535
                        THEN BCat(Run(4, 1), PutBE(msg_len, 4))
                        ELSE BCat(Run(8, 1), PutBE(msg_len, 8))
    IN  BCat(BCat(buf, header), payload)

\* Encoder::encode: the buffer after msg has been written to buf
encode(msg, buf) ==
    LET payload == Serialize(msg)
        msg_len == BLen(payload)
        header  == IF msg_len <= 65535
                   THEN BCat(Run(2, 1), PutBE(msg_len, 2))
                   ELSE IF msg_len \div 65536 <= 65535
                        THEN BCat(Run(4, 1), PutBE(msg_len, 4))
                        ELSE BCat(Run(8, 1), PutBE(msg_len, 8))
    IN  BCat(BCat(buf, header), payload)

\* Decoder::decode: the result and the buffer it leaves
decode(buf) ==
    IF BLen(buf) <= 3 THEN [res |-> "None", src |-> buf]
    ELSE
    LET header_len_size == BAt(buf, 1)
        reader == BDrop(buf, 1)
    IN  IF header_len_size = 0 THEN [res |-> "None", src |-> buf]
        ELSE IF header_len_size \notin {2, 4, 8}
        THEN [res |-> "Err", err |-> "InvalidLengthBye", src |-> buf]
        ELSE IF BLen(reader) < header_len_size
        THEN [res |-> "Err", err |-> "IOError", src |-> buf]
        ELSE
        LET payload_size == ReadBE(reader, header_len_size)
            header_size == 1 + header_len_size
            current_frame_size == header_size + payload_size
        IN  IF BLen(buf) < current_frame_size THEN [res |-> "None", src |-> buf]
            ELSE
            LET data == BTake(BDrop(buf, header_size), payload_size)
                rest == BDrop(buf, current_frame_size)
                item == Deserialize(data)
            IN  IF item.some THEN [res |-> "Some", msg |-> item.v, src |-> rest]
                ELSE [res |-> "Err", err |-> "SerializationError", src |-> rest]

Frame(msg) == encode(msg, <<>>)

\* the peer's FramedWrite encodes one more message onto the connection
CodecEncode(msg) ==
    /\ decoded.res # "Err"
    /\ Len(in_flight) < MaxFrames
    /\ wire' = encode(msg, wire)
    /\ in_flight' = Append(in_flight, msg)
    /\ UNCHANGED <<src, decoded, server_vars, queue_vars, loop_vars, word_vars>>

\* the sizes of the reads tried: each short prefix, the frame being received
\* less one byte, that whole frame, and all that is on the connection
ReadSizes ==
    LET rest == IF in_flight = <<>> THEN 0 ELSE BLen(Frame(Head(in_flight))) - BLen(src)
    IN  {k \in (1..(MaxPrefix - BLen(src))) \cup {rest - 1, rest, BLen(wire)} :
            1 <= k /\ k <= BLen(wire)}

\* FramedRead reads k more bytes of the connection into the decoder's buffer
CodecRead(k) ==
    /\ decoded.res # "Err"
    /\ src' = BCat(src, BTake(wire, k))
    /\ wire' = BDrop(wire, k)
    /\ UNCHANGED <<in_flight, decoded, server_vars, queue_vars, loop_vars, word_vars>>

\* FramedRead calls decode on what is buffered; an error ends the stream
CodecDecode ==
    /\ decoded.res # "Err"
    /\ LET r == decode(src)
       IN  /\ decoded' = [f \in (DOMAIN r) \ {"src"} |-> r[f]]
           /\ src' = r.src
           /\ in_flight' = IF r.res = "Some" /\ in_flight # <<>> THEN Tail(in_flight) ELSE in_flight
    /\ UNCHANGED <<wire, server_vars, queue_vars, loop_vars, word_vars>>

CodecInit == CodecIdle /\ ServerIdle /\ QueueIdle /\ LoopIdle /\ WordIdle

CodecNext ==
    \/ \E msg \in NetMessages : CodecEncode(msg)
    \/ \E k \in ReadSizes : CodecRead(k)
    \/ CodecDecode

CodecSpec == CodecInit /\ [][CodecNext]_vars

\* HeaderSpec: a peer that writes bytes of its own choosing: one first byte
\* (the len_tag) followed by up to MaxPrefix - 1 equal bytes, read into the
\* decoder's buffer in pieces and decoded
LenTags == {0, 1, 2, 3, 4, 8, 9}
FillBytes == {0, 1}
RawBytes ==
    {BCat(Run(tag, 1), Run(b, k)) : tag \in LenTags, b \in FillBytes, k \in 0..(MaxPrefix - 1)}

HeaderInit ==
    /\ wire \in RawBytes
    /\ src = <<>>
    /\ in_flight = <<>>
    /\ decoded = [res |-> "Init"]
    /\ ServerIdle
    /\ QueueIdle
    /\ LoopIdle
    /\ WordIdle

HeaderNext ==
    \/ \E k \in ReadSizes : CodecRead(k)
    \/ CodecDecode

HeaderSpec == HeaderInit /\ [][HeaderNext]_vars

(***************************************************************************)
(* LoopSpec: one UserSession task (slot 1, connection id 0) through the    *)
(* statements of UserSession::run, with the peer, the orchestrator and the *)
(* clock as its environment. The task is scheduled and time passes.        *)
(***************************************************************************)
MaxRequests == 2
MaxNotes == 2
ClockWrap == 2
TIMED_OUT_SECONDS == 10

\* the results FramedRead yields: a decoded request or a decode error
LoopRequests ==
    {[tag |-> "Ping"], [tag |-> "ListRoom"], [tag |-> "Chat", text |-> <<"b">>],
     [tag |-> "RequestRoom", name |-> "alice", req |-> [tag |-> "Join", room_key |-> "main"]]}

DecodeErr == [tag |-> "Err"]

\* the notifications the orchestrator sends to the session
LoopNotes ==
    {[type |-> "JoinRoom", name |-> "alice"], [type |-> "Kicked", name |-> ""],
     [type |-> "Chat", name |-> ""]}

LoopInit ==
    /\ sessions = [s \in Slots |-> IF s = 1 THEN [FreeSession EXCEPT !.status = "running"]
                                             ELSE FreeSession]
    /\ event_queue = <<>>
    /\ connected_users = Insert(<< >>, 0, [sender |-> 1, game |-> None])
    /\ game_rooms = [k \in RoomKeys |-> GameRoomNew(None)]
    /\ panicked = FALSE
    /\ sent = <<>>
    /\ last = Quiet("Init")
    /\ QueueIdle
    /\ CodecIdle
    /\ LoopIdle
    /\ WordIdle

LoopFrame == UNCHANGED <<connected_users, game_rooms, panicked, queue_vars, codec_vars, word_vars>>

\* one second passes
Elapse ==
    /\ clock' = (clock + 1) % ClockWrap
    /\ last_hb' = Min(last_hb + 1, TIMED_OUT_SECONDS + 1)
    /\ hb' = Max(hb - 1, 0)
    /\ sent' = <<>>
    /\ last' = Quiet("Elapse")
    /\ LoopFrame
    /\ UNCHANGED <<sessions, event_queue, pc, server_msg, framed, arrived>>

\* the peer's next frame reaches the reader
PeerFrame(f) ==
    /\ pc # "done"
    /\ arrived.frames < MaxRequests
    /\ arrived' = [arrived EXCEPT !.frames = @ + 1]
    /\ framed' = [framed EXCEPT !.inbound = Append(@, f)]
    /\ sent' = <<>>
    /\ last' = Step("PeerFrame", f)
    /\ LoopFrame
    /\ UNCHANGED <<sessions, event_queue, clock, last_hb, hb, pc, server_msg>>

\* the orchestrator sends a notification through the session's EventSender
Notify(m) ==
    /\ pc # "done"
    /\ arrived.notes < MaxNotes
    /\ arrived' = [arrived EXCEPT !.notes = @ + 1]
    /\ sessions' = [sessions EXCEPT ![1].queue = Append(@, m)]
    /\ sent' = <<>>
    /\ last' = Step("Notify", m)
    /\ LoopFrame
    /\ UNCHANGED <<event_queue, clock, last_hb, hb, pc, server_msg, framed>>

\* while !matches!(self.state, UserState::Stop)
LoopWhile ==
    /\ pc = "while"
    /\ pc' = IF sessions[1].state = "Stop" THEN "notify" ELSE "recv"
    /\ sent' = <<>>
    /\ last' = Quiet("LoopWhile")
    /\ LoopFrame
    /\ UNCHANGED <<sessions, event_queue, clock, last_hb, hb, server_msg, framed, arrived>>

\* let server_msg = self.event_queue.recv(): EventQueue::recv blocks the task
\* until the session's queue holds a message, and takes it
LoopRecv ==
    /\ pc = "recv"
    /\ sessions[1].queue # <<>>
    /\ server_msg' = Some(Head(sessions[1].queue))
    /\ sessions' = [sessions EXCEPT ![1].queue = Tail(@)]
    /\ pc' = "check"
    /\ sent' = <<>>
    /\ last' = Quiet("LoopRecv")
    /\ LoopFrame
    /\ UNCHANGED <<event_queue, clock, last_hb, hb, framed, arrived>>

\* the heartbeat check: break once more than TIMED_OUT_SECONDS have passed
LoopCheck ==
    /\ pc = "check"
    /\ pc' = IF last_hb > TIMED_OUT_SECONDS THEN "notify" ELSE "select"
    /\ sent' = <<>>
    /\ last' = Quiet("LoopCheck")
    /\ LoopFrame
    /\ UNCHANGED <<sessions, event_queue, clock, last_hb, hb, server_msg, framed, arrived>>

\* select!, the branch of hb.tick(): the iteration ends, server_msg is dropped
SelectTick ==
    /\ pc = "select"
    /\ hb = 0
    /\ hb' = TIMED_OUT_SECONDS
    /\ server_msg' = None
    /\ pc' = "while"
    /\ sent' = <<>>
    /\ last' = Quiet("SelectTick")
    /\ LoopFrame
    /\ UNCHANGED <<sessions, event_queue, clock, last_hb, framed, arrived>>

\* select!, the branch of client_msg: handle_msg for a request, break for a
\* decode error; server_msg is dropped
SelectClient ==
    /\ pc = "select"
    /\ framed.inbound # <<>>
    /\ LET f == Head(framed.inbound)
           ev == IF f = DecodeErr THEN None ELSE Forwarded(sessions[1], f)
       IN /\ framed' = [framed EXCEPT !.inbound = Tail(@)]
          /\ pc' = IF f = DecodeErr THEN "notify" ELSE "while"
          /\ last_hb' = IF f.tag = "Ping" THEN 0 ELSE last_hb
          /\ event_queue' = IF ev.some THEN Append(event_queue, ev.v) ELSE event_queue
          /\ last' = Step("SelectClient", f)
    /\ server_msg' = None
    /\ sent' = <<>>
    /\ LoopFrame
    /\ UNCHANGED <<sessions, clock, hb, arrived>>

\* select!, the branch of server_msg: UserSession::send
SelectServer ==
    /\ pc = "select"
    /\ server_msg.some
    /\ LET m == server_msg.v
       IN /\ sessions' = [sessions EXCEPT
                 ![1].state = IF m.type = "JoinRoom" THEN "InGame"
                              ELSE IF m.type = "Kicked" THEN "Stop" ELSE @,
                 ![1].name = IF m.type = "JoinRoom" THEN m.name ELSE @]
          /\ framed' = [framed EXCEPT !.written = Append(@, m)]
          /\ last' = Step("SelectServer", m)
    /\ server_msg' = None
    /\ pc' = "while"
    /\ sent' = <<>>
    /\ LoopFrame
    /\ UNCHANGED <<event_queue, clock, last_hb, hb, arrived>>

\* after the loop: self.server.send(Disconnect { id }), and the task returns
LoopNotify ==
    /\ pc = "notify"
    /\ event_queue' = Append(event_queue, DisconnectEv(sessions[1].id, 1))
    /\ sessions' = [sessions EXCEPT ![1].status = "exited", ![1].queue = <<>>]
    /\ server_msg' = None
    /\ pc' = "done"
    /\ sent' = <<>>
    /\ last' = Quiet("LoopNotify")
    /\ LoopFrame
    /\ UNCHANGED <<clock, last_hb, hb, framed, arrived>>

\* the steps of the session task
LoopStep ==
    \/ LoopWhile
    \/ LoopRecv
    \/ LoopCheck
    \/ SelectTick
    \/ SelectClient
    \/ SelectServer
    \/ LoopNotify

LoopNext ==
    \/ Elapse
    \/ \E f \in LoopRequests \cup {DecodeErr} : PeerFrame(f)
    \/ \E m \in LoopNotes : Notify(m)
    \/ LoopStep

LoopSpec == LoopInit /\ [][LoopNext]_vars /\ WF_vars(LoopStep) /\ WF_vars(Elapse)

(***************************************************************************)
(* LevSpec: levenshtein_distance called on every pair of strings of up to  *)
(* MaxWord characters over LevAlphabet, the empty string included.         *)
(***************************************************************************)
MaxWord == 3
LevAlphabet == {"a", "B", "b"}
LevStrings == UNION {[1..n -> LevAlphabet] : n \in 0..MaxWord}

LevInit ==
    /\ lev = [op |-> "none"]
    /\ skribbl = [state |-> NoSkribbl, panicked |-> FALSE]
    /\ ServerIdle
    /\ QueueIdle
    /\ CodecIdle
    /\ LoopIdle

\* do_guess calls levenshtein_distance(guess, &self.current_word)
LevCall(a, b) ==
    /\ lev' = [op |-> "levenshtein_distance", a |-> a, b |-> b,
               dist |-> levenshtein_distance(a, b)]
    /\ UNCHANGED <<skribbl, server_vars, queue_vars, codec_vars, loop_vars>>

LevNext == \E a \in LevStrings, b \in LevStrings : LevCall(a, b)

LevSpec == LevInit /\ [][LevNext]_vars

(***************************************************************************)
(* HintSpec: a Skribbl whose turn has just started on one of HintWords     *)
(* (next_turn has built the Guess form of the word), and then              *)
(* reveal_random_char called any number of times during that turn.         *)
(***************************************************************************)
HintWords ==
    { <<>>, <<"a">>, <<"a", "b">>, <<"b", "c", "d">>, <<"a", "b", "c", "d">>,
      <<"a", " ", "b", "c">>, <<"a", "b", "c", "d", "e">>,
      <<"a", "-", "b", "c", "d", "e">> }

\* the Skribbl after next_turn has taken `word` for the drawer `who`
TurnOn(who, word) ==
    [SkribblNew EXCEPT !.game.turn.current_round = 1,
                       !.current_word = word,
                       !.game.turn.word = GuessWord(who, word)]

HintInit ==
    /\ skribbl \in {[state |-> TurnOn(Username("alice", 0), w), panicked |-> FALSE] :
                       w \in HintWords}
    /\ lev = [op |-> "none"]
    /\ ServerIdle
    /\ QueueIdle
    /\ CodecIdle
    /\ LoopIdle

RevealRandomChar ==
    /\ ~skribbl.panicked
    /\ skribbl' \in reveal_random_char(skribbl.state)
    /\ UNCHANGED <<lev, server_vars, queue_vars, codec_vars, loop_vars>>

HintNext == RevealRandomChar

HintSpec == HintInit /\ [][HintNext]_vars

(* --------------------------------------------------------------- claims *)
Room == game_rooms["main"]

\* C1: while the room is Playing, exactly one player id is drawing and that id
\* is the id of a member in connected_sessions.
C1_SingleConnectedDrawer ==
    Room.state = "Playing" =>
        /\ Room.skribbl.game.turn.word.tag = "Guess"
        /\ Cardinality({id \in PlayerIds : is_drawing(Room.skribbl, id)}) = 1
        /\ get_drawing_player(Room.skribbl) \in Members

\* the drawer id leaves a Playing room in which another member remains
DrawerLeaves(id) ==
    /\ Room.state = "Playing"
    /\ id \in Members
    /\ Members \ {id} # {}
    /\ is_drawing(Room.skribbl, id)

\* C2: when the drawer's Disconnect is handled and another member remains, the
\* same step makes a different, still connected member the drawer with the next
\* word of the cycle, or ends the game because the rounds are exhausted.
C2_DrawerDisconnectAdvances ==
    [][\A id \in PlayerIds :
           (DrawerLeaves(id) /\ last'.op = "disconnect" /\ last'.ev.id = id) =>
               IF game_rooms'["main"].state = "Playing"
               THEN /\ ~is_drawing(game_rooms'["main"].skribbl, id)
                    /\ get_drawing_player(game_rooms'["main"].skribbl)
                           \in DOMAIN game_rooms'["main"].connected_sessions
                    /\ game_rooms'["main"].skribbl.current_word = Words[Room.skribbl.words]
               ELSE is_last_round(Room.skribbl)]_vars

\* member id, neither drawing nor solved, sends a text at distance 0 from the word
EligibleGuess(id, text, dist) ==
    /\ Room.state = "Playing"
    /\ id \in Members
    /\ ~is_drawing(Room.skribbl, id)
    /\ ~Room.connected_sessions[id].player.solved_current_round
    /\ levenshtein_distance(text, Room.skribbl.current_word) = dist

ChatHandled(id, text) ==
    /\ last'.op = "on_chat_msg"
    /\ IdOf(last'.ev.from) = id
    /\ last'.ev.msg.text = text

\* C9: after a correct guess of an eligible guesser is handled, the guesser's
\* solved_current_round is true.
C9_CorrectGuessSolves ==
    [][\A id \in PlayerIds, text \in ChatTexts :
           (EligibleGuess(id, text, 0) /\ ChatHandled(id, text)) =>
               game_rooms'["main"].connected_sessions[id].player.solved_current_round]_vars

SentTo(log, id) == SelectSeq(log, LAMBDA e : e.to = id)

\* C10: on a correct guess every member is sent exactly one message, the system
\* message "<name> guessed it!" (taken by every member whose session still
\* runs), and no message carrying the text of the guess is sent.
C10_CorrectGuessAnnounced ==
    [][\A id \in PlayerIds, text \in ChatTexts :
           (EligibleGuess(id, text, 0) /\ ChatHandled(id, text)) =>
               /\ \A m \in Members :
                      SentTo(sent', m) =
                          << [to |-> m,
                              msg |-> ChatSystem(<<NameOf(Room.connected_sessions[id].player.name),
                                                   " guessed it!">>),
                              ok |-> sessions[Room.connected_sessions[m].addr].status = "running"] >>
               /\ \A i \in DOMAIN sent' :
                      /\ sent'[i].to \in Members
                      /\ sent'[i].msg.type = "Chat"
                      /\ sent'[i].msg.kind = "System"]_vars

\* a correct guess in a room of three has just been announced to all of them
C10_Witness ==
    /\ last.op = "on_chat_msg"
    /\ Cardinality(Members) = NumPlayers
    /\ Room.state = "Playing"
    /\ levenshtein_distance(last.ev.msg.text, Room.skribbl.current_word) = 0
    /\ Len(sent) = Cardinality(Members)
    /\ \A i \in DOMAIN sent : sent[i].ok /\ sent[i].msg.kind = "System"

\* C4: handling the Disconnect of a session task whose registry entry is already
\* gone changes neither connected_users nor any room.
C4_LateDisconnectIsNoOp ==
    [][(/\ event_queue # <<>>
        /\ Head(event_queue).type = "Disconnect"
        /\ last'.op = "Disconnect"
        /\ ~\E id \in DOMAIN connected_users :
               connected_users[id].sender = Head(event_queue).task)
       => (connected_users' = connected_users /\ game_rooms' = game_rooms)]_vars

\* C5: no two running session tasks carry the same connection id.
C5_RunningIdsUnique ==
    \A s \in Slots, t \in Slots :
        (s # t /\ sessions[s].status = "running" /\ sessions[t].status = "running")
            => sessions[s].id # sessions[t].id

\* C6: the orchestrator never panics; a send to a closed session queue is dropped.
C6_OrchestratorNeverPanics == ~panicked


ReceiveOps == {"recv", "try_recv", "recv_timeout"}

\* a receive operation took a value off the queue in this step
Receives == received'.op \in ReceiveOps /\ Len(recv' \o immediate_recv') < Len(Pending)

\* one value sent with send and one sent with send_immediate are pending
OneOfEachPending ==
    /\ Len(Pending) = 2
    /\ {Pending[1].class, Pending[2].class} = {"Normal", "Immediate"}

\* C3: when one Normal and one Immediate message are both pending, whichever
\* was sent first, the next recv, try_recv or recv_timeout returns the
\* Immediate one.
C3_ImmediateBeforeNormal ==
    [][(OneOfEachPending /\ Receives) => received'.value.v.class = "Immediate"]_vars

FirstFrame == Frame(Head(in_flight))

\* src holds some but not all bytes of the frame of the oldest message in flight
StrictPrefix ==
    /\ in_flight # <<>>
    /\ BLen(src) < BLen(FirstFrame)
    /\ src = BTake(FirstFrame, BLen(src))

\* src holds exactly the frame of the oldest message in flight
WholeFrame == in_flight # <<>> /\ src = FirstFrame

\* src starts with the whole frame of the oldest message in flight
FrameBuffered ==
    /\ in_flight # <<>>
    /\ BLen(src) >= BLen(FirstFrame)
    /\ BTake(src, BLen(FirstFrame)) = FirstFrame

\* decode is called in this step: the only step that leaves the connection alone
Decodes == wire' = wire /\ <<src, in_flight, decoded>>' # <<src, in_flight, decoded>>

\* C7: decode on a buffer holding a strict prefix of encode(M), the empty
\* prefix and the prefixes ending inside the length header included, returns
\* need-more-data, never an error, and leaves the buffer unchanged; once the
\* remaining bytes are appended, decode returns M.
C7_PartialFrameNeedsMoreData ==
    [][Decodes =>
          /\ StrictPrefix => (decoded'.res = "None" /\ src' = src)
          /\ WholeFrame => (decoded'.res = "Some" /\ decoded'.msg = Head(in_flight))]_vars

\* C8: decode of a buffer that starts with encode(M) returns M and consumes
\* exactly that frame, for every payload size (zero bytes and both sides of
\* the 2-byte/4-byte header boundary included); of two frames written back to
\* back the first decode returns M1 and the second M2.
C8_RoundTrip ==
    [][(Decodes /\ FrameBuffered) =>
          /\ decoded'.res = "Some"
          /\ decoded'.msg = Head(in_flight)
          /\ src' = BDrop(src, BLen(FirstFrame))]_vars

\* C11: a chat message of an eligible guesser at distance 1 from the word is
\* answered by one private system hint to that guesser; nothing is sent to any
\* other member and the room, the guesser's score and solved flag included, is
\* unchanged.
C11_NearMissIsPrivate ==
    [][\A id \in PlayerIds, text \in ChatTexts :
           (EligibleGuess(id, text, 1) /\ ChatHandled(id, text)) =>
               /\ sent' = << [to |-> id,
                              msg |-> ChatSystem(<<"You're very close!">>),
                              ok |-> sessions[Room.connected_sessions[id].addr].status = "running"] >>
               /\ game_rooms'["main"].connected_sessions[id].player
                      = Room.connected_sessions[id].player
               /\ game_rooms' = game_rooms]_vars

\* a near miss in a room of three has just been answered, to the guesser alone
C11_Witness ==
    /\ last.op = "on_chat_msg"
    /\ Cardinality(Members) = NumPlayers
    /\ Room.state = "Playing"
    /\ IdOf(last.ev.from) \in Members
    /\ ~is_drawing(Room.skribbl, IdOf(last.ev.from))
    /\ levenshtein_distance(last.ev.msg.text, Room.skribbl.current_word) = 1
    /\ Len(sent) = 1
    /\ sent[1].to = IdOf(last.ev.from) /\ sent[1].ok /\ sent[1].msg.kind = "System"

\* the turn's word a notification carries, if it carries one
WordIn(msg) ==
    CASE msg.type = "TurnStart" -> Some(msg.turn.word)
      [] msg.type = "RoomStateChange" /\ msg.state.tag = "Playing" -> Some(msg.state.game.turn.word)
      [] msg.type = "JoinRoom" /\ msg.initial_state.tag = "Playing" ->
             Some(msg.initial_state.game.turn.word)
      [] OTHER -> None

\* C12: a TurnStart, RoomStateChange or JoinRoom sent to a member carries a
\* plaintext word (the Draw form with a text) only when that text is the active
\* secret word and the member is the current drawer; every other member is
\* sent the Guess form (hints, word_len, who) at most.
C12_PlaintextOnlyToDrawer ==
    \A i \in DOMAIN sent :
        LET w == WordIn(sent[i].msg)
        IN  (w.some /\ w.v.tag = "Draw" /\ w.v.text # <<>>) =>
                /\ Room.state = "Playing"
                /\ w.v.text = Room.skribbl.current_word
                /\ is_drawing(Room.skribbl, sent[i].to)

\* a round has just started in a room of three: the drawer was sent the
\* plaintext, the two others the Guess form
C12_Witness ==
    /\ Room.state = "Playing"
    /\ Cardinality(Members) = NumPlayers
    /\ \E i \in DOMAIN sent :
           /\ sent[i].msg.type = "TurnStart"
           /\ sent[i].msg.turn.word = DrawWord(Room.skribbl.current_word)
           /\ is_drawing(Room.skribbl, sent[i].to)
    /\ \A m \in Members :
           ~is_drawing(Room.skribbl, m) =>
               \E i \in DOMAIN sent :
                   /\ sent[i].to = m
                   /\ sent[i].msg.type = "TurnStart"
                   /\ sent[i].msg.turn.word.tag = "Guess"

\* the event at the head of the orchestrator's queue is a Draw action of member
\* id of a Playing room, and id is (drawing) or is not (~drawing) the drawer
DrawQueued(id, drawing) ==
    /\ event_queue # <<>>
    /\ Head(event_queue).type = "InRoomMessage"
    /\ Head(event_queue).msg.tag = "Draw"
    /\ IdOf(Head(event_queue).from) = id
    /\ id \in DOMAIN connected_users
    /\ connected_users[id].game.some
    /\ Room.state = "Playing"
    /\ id \in Members
    /\ ~DrawerUndefined(Room)
    /\ is_drawing(Room.skribbl, id) = drawing

\* C13: handling a Draw action of a member who is not the drawer of a Playing
\* room changes no room (so not the canvas), sends nothing, and leaves the
\* registry and every session, the sender's included, as they were.
C13_NonDrawerDrawIgnored ==
    [][\A id \in Ids :
           (DrawQueued(id, FALSE) /\ last'.op = "InRoomMessage"
               /\ event_queue' = Tail(event_queue)) =>
               /\ game_rooms' = game_rooms
               /\ sent' = <<>>
               /\ connected_users' = connected_users
               /\ sessions' = sessions
               /\ ~panicked']_vars

\* a Draw action of a non-drawer has just been handled while the canvas held a point
C13_Witness ==
    /\ last.op = "InRoomMessage"
    /\ last.ev.msg.tag = "Draw"
    /\ Room.state = "Playing"
    /\ IdOf(last.ev.from) \in Members
    /\ ~is_drawing(Room.skribbl, IdOf(last.ev.from))
    /\ Room.skribbl.game.canvas # << >>
    /\ last.ev.msg.draw.tag = "Clear"
    /\ sent = <<>>

\* the canvas `after` is the canvas `before` with draw applied
Drawn(before, after, draw) ==
    CASE draw.tag = "Clear" -> after = << >>
      [] draw.tag = "Erase" ->
             /\ DOMAIN after = (DOMAIN before) \ {draw.point}
             /\ \A p \in DOMAIN after : after[p] = before[p]
      [] draw.tag = "Paint" ->
             LET painted == {draw.points[i] : i \in DOMAIN draw.points}
             IN  /\ DOMAIN after = (DOMAIN before) \cup painted
                 /\ \A p \in painted : after[p] = draw.color
                 /\ \A p \in (DOMAIN before) \ painted : after[p] = before[p]

\* C14: a Draw action of the drawer of a Playing room is applied to the canvas
\* and sent exactly once to every other member and not to the drawer.
C14_DrawerDrawFansOut ==
    [][\A id \in PlayerIds :
           (/\ Room.state = "Playing" /\ id \in Members /\ ~DrawerUndefined(Room)
            /\ is_drawing(Room.skribbl, id)
            /\ last'.op = "on_paint_msg" /\ IdOf(last'.ev.from) = id) =>
               /\ game_rooms'["main"].state = "Playing"
               /\ Drawn(Room.skribbl.game.canvas,
                        game_rooms'["main"].skribbl.game.canvas, last'.ev.msg.draw)
               /\ SentTo(sent', id) = <<>>
               /\ Len(sent') = Cardinality(Members) - 1
               /\ \A m \in Members \ {id} :
                      SentTo(sent', m) =
                          << [to |-> m, msg |-> DrawMsg(last'.ev.msg.draw),
                              ok |-> sessions[Room.connected_sessions[m].addr].status = "running"] >>]_vars

\* the drawer of a room of three has just painted; the two others were sent it
C14_Witness ==
    /\ last.op = "on_paint_msg"
    /\ last.ev.msg.draw.tag = "Paint"
    /\ Room.state = "Playing"
    /\ Cardinality(Members) = NumPlayers
    /\ is_drawing(Room.skribbl, IdOf(last.ev.from))
    /\ Room.skribbl.game.canvas # << >>
    /\ Len(sent) = NumPlayers - 1
    /\ \A i \in DOMAIN sent : sent[i].ok /\ sent[i].msg.type = "Draw"

NewRoom == game_rooms'["main"]

\* the players of the round's snapshot that have not drawn yet and are members of room
StillToDraw(room, left) == SelectSeq(left, LAMBDA u : IdOf(u) \in DOMAIN room.connected_sessions)

\* this step ends the running round: the game ends or the next round starts
RoundEnds ==
    /\ Room.state = "Playing"
    /\ \/ NewRoom.state # "Playing"
       \/ NewRoom.skribbl.game.turn.current_round # Room.skribbl.game.turn.current_round

\* this step gives the turn to another player of the running round
TurnPasses ==
    /\ Room.state = "Playing"
    /\ NewRoom.state = "Playing"
    /\ NewRoom.skribbl.game.turn.current_round = Room.skribbl.game.turn.current_round
    /\ NewRoom.skribbl.game.turn.word # Room.skribbl.game.turn.word

\* C15: a round ends only when no player of its snapshot who is still connected
\* is left without a turn; a turn within the round passes to the first player
\* of the snapshot order who has not drawn and is still connected; a join during
\* the round changes neither the drawer nor the players still to draw.
C15_EverySnapshotPlayerDraws ==
    [][/\ RoundEnds => StillToDraw(NewRoom, Room.skribbl.players_left_in_round) = <<>>
       /\ TurnPasses =>
              /\ StillToDraw(NewRoom, Room.skribbl.players_left_in_round) # <<>>
              /\ NewRoom.skribbl.game.turn.word.who
                     = Head(StillToDraw(NewRoom, Room.skribbl.players_left_in_round))
       /\ (Room.state = "Playing" /\ last'.op = "connect") =>
              /\ NewRoom.state = "Playing"
              /\ NewRoom.skribbl.players_left_in_round = Room.skribbl.players_left_in_round
              /\ NewRoom.skribbl.game.turn = Room.skribbl.game.turn]_vars

\* the turn of drawer u in round r is running
TurnOf(r, u) ==
    /\ Room.state = "Playing"
    /\ Room.skribbl.game.turn.current_round = r
    /\ Room.skribbl.game.turn.word = GuessWord(u, Room.skribbl.current_word)

\* C16: every turn ends while the orchestrator runs. remaining_round_time is 0
\* from the start of a turn (end_instant is never set), so the turn's end time
\* has always passed; a panic of the orchestrator (C6) is left aside.
C16_EveryTurnEnds ==
    \A r \in 1..NumRounds, id \in PlayerIds :
        \A name \in ClientNames(id) :
            TurnOf(r, Username(name, id)) ~> (~TurnOf(r, Username(name, id)) \/ panicked)

\* handling the Disconnect of drawer id makes a new round due (no player is
\* left to draw) when the configured rounds are used up
RoundDueAtLastRound(id) ==
    /\ DrawerLeaves(id)
    /\ last'.op = "disconnect" /\ last'.ev.id = id
    /\ is_last_turn(Room.skribbl)
    /\ Room.skribbl.game.turn.current_round = Room.skribbl.game.turn.last_round

\* C17: a Playing room has current_round <= last_round = number_of_rounds; when
\* a round is due at current_round = last_round the room becomes Lobby (owner)
\* or Waiting (no owner), its Skribbl is dropped, and every member is sent the
\* RoomStateChange.
C17_RoundsBounded ==
    [][/\ NewRoom.state = "Playing" =>
              /\ NewRoom.skribbl.game.turn.last_round = NumRounds
              /\ NewRoom.skribbl.game.turn.current_round <= NewRoom.skribbl.game.turn.last_round
       /\ \A id \in PlayerIds :
              RoundDueAtLastRound(id) =>
                  /\ NewRoom.state = IF Room.owner_id.some THEN "Lobby" ELSE "Waiting"
                  /\ NewRoom.skribbl = NoSkribbl
                  /\ \A m \in DOMAIN NewRoom.connected_sessions :
                         \E i \in DOMAIN sent' :
                             /\ sent'[i].to = m
                             /\ sent'[i].msg = RoomStateChange([tag |-> NewRoom.state])]_vars

\* the drawer of the last turn of the last round has just left two members
\* behind: the game is over and both were sent the new room state
C17_Witness ==
    /\ last.op = "disconnect"
    /\ Room.state = "Waiting"
    /\ Room.skribbl = NoSkribbl
    /\ Cardinality(Members) = NumPlayers - 1
    /\ \A m \in Members :
           \E i \in DOMAIN sent :
               sent[i].to = m /\ sent[i].ok /\ sent[i].msg = RoomStateChange([tag |-> "Waiting"])

\* this step handles a join of the room: GameRoom::connect is reached, directly
\* or through on_room_request for a registered user that is in no room yet
JoinHandled ==
    \/ last'.op = "connect"
    \/ /\ last'.op = "RoomRequest"
       /\ last'.ev.req.tag = "Join"
       /\ last'.ev.req.room_key \in DOMAIN game_rooms
       /\ IdOf(last'.ev.from) \in DOMAIN connected_users
       /\ ~connected_users[IdOf(last'.ev.from)].game.some

\* C18: a join handled while the room is Waiting, with at least
\* REQUIRED_PLAYERS members after it and at least one round configured, leaves
\* the room Playing in round 1 with a member as the drawer.
C18_JoinStartsGame ==
    [][(/\ Room.state = "Waiting"
        /\ JoinHandled
        /\ Cardinality(DOMAIN NewRoom.connected_sessions) >= REQUIRED_PLAYERS
        /\ NumRounds >= 1) =>
           /\ NewRoom.state = "Playing"
           /\ NewRoom.skribbl.game.turn.current_round = 1
           /\ NewRoom.skribbl.game.turn.word.tag = "Guess"
           /\ get_drawing_player(NewRoom.skribbl) \in DOMAIN NewRoom.connected_sessions]_vars

\* a join into a Waiting room that held two members has just started a game
C18_Witness ==
    /\ last.op = "connect"
    /\ Room.state = "Playing"
    /\ Cardinality(Members) = NumPlayers
    /\ Room.skribbl.game.turn.current_round = 1
    /\ get_drawing_player(Room.skribbl) \in Members
    /\ \E i \in DOMAIN sent : sent[i].msg.type = "TurnStart"

\* C19: a room without members is not Playing; the step that removes its last
\* member leaves it Waiting (no owner) or Lobby (owner), without a Skribbl and
\* still in the registry, and a join handled for the empty room makes the
\* joiner a member.
C19_EmptyRoomNotPlaying ==
    [][/\ DOMAIN NewRoom.connected_sessions = {} => NewRoom.state # "Playing"
       /\ (Members # {} /\ DOMAIN NewRoom.connected_sessions = {}) =>
              /\ NewRoom.state = IF Room.owner_id.some THEN "Lobby" ELSE "Waiting"
              /\ NewRoom.skribbl = NoSkribbl
              /\ "main" \in DOMAIN game_rooms'
       /\ (Members = {} /\ JoinHandled) =>
              /\ "main" \in DOMAIN game_rooms
              /\ DOMAIN NewRoom.connected_sessions = {IdOf(last'.ev.from)}]_vars

\* the Disconnect of the last member has just been handled
C19_Witness ==
    /\ last.op = "disconnect"
    /\ Members = {}
    /\ Room.state = "Waiting"
    /\ Room.skribbl = NoSkribbl
    /\ "main" \in DOMAIN game_rooms

\* the JoinRoom notifications waiting in a session's queue
JoinRooms(q) == Cardinality({i \in DOMAIN q : q[i].type = "JoinRoom"})

\* C20: a session becomes InGame only by taking a JoinRoom from its own queue;
\* handling a frame of the peer (a RequestRoom included) leaves every session's
\* state as it was; and a JoinRoom enters a session's queue only in a step at
\* whose end that session's id is in the room's member map, so every InGame
\* session's id had been inserted before.
C20_InGameOnlyByJoinRoom ==
    [][/\ \A s \in Slots :
             (sessions'[s].state = "InGame" /\ sessions[s].state # "InGame") =>
                 /\ last'.op = "SessionForward"
                 /\ sessions[s].queue # <<>>
                 /\ Head(sessions[s].queue).type = "JoinRoom"
                 /\ sessions'[s].queue = Tail(sessions[s].queue)
                 /\ sessions'[s].id = sessions[s].id
       /\ last'.op = "ClientMessage" =>
             \A s \in Slots : sessions'[s].state = sessions[s].state
       /\ \A s \in Slots :
             JoinRooms(sessions'[s].queue) > JoinRooms(sessions[s].queue) =>
                 /\ last'.op = "RoomRequest"
                 /\ sessions[s].id \in DOMAIN NewRoom.connected_sessions
                 /\ NewRoom.connected_sessions[sessions[s].id].addr = s]_vars

\* the only session there is has just taken its JoinRoom and is InGame
C20_Witness ==
    /\ last.op = "SessionForward"
    /\ \E s \in Slots :
          /\ sessions[s].status = "running"
          /\ sessions[s].state = "InGame"
          /\ sessions[s].id \in Members
          /\ \A t \in Slots \ {s} : sessions[t].status = "free"

\* the Disconnect events of the session task in slot s still to be received
DisconnectsOf(queue, s) ==
    {i \in DOMAIN queue : queue[i].type = "Disconnect" /\ queue[i].task = s}

\* C21: the step in which a session leaves its loop appends exactly one
\* Disconnect carrying the session's id to the orchestrator's queue and changes
\* no other session, the registry, the rooms or the orchestrator; a session
\* that has left has at most that one Disconnect pending, and every request
\* event entering the queue comes from a session that is running before and
\* after the step and has not stopped.
C21_ExitSendsOneDisconnect ==
    [][/\ \A s \in Slots :
             (sessions[s].status = "running" /\ sessions'[s].status # "running") =>
                 /\ event_queue' = Append(event_queue, DisconnectEv(sessions[s].id, s))
                 /\ \A t \in Slots \ {s} : sessions'[t] = sessions[t]
                 /\ UNCHANGED <<connected_users, game_rooms, panicked>>
       /\ \A s \in Slots :
             /\ Cardinality(DisconnectsOf(event_queue', s)) <= 1
             /\ sessions'[s].status = "running" => DisconnectsOf(event_queue', s) = {}
             /\ Cardinality(DisconnectsOf(event_queue', s))
                    > Cardinality(DisconnectsOf(event_queue, s)) =>
                        sessions[s].status = "running" /\ sessions'[s].status = "exited"
       /\ (/\ Len(event_queue') > 0
           /\ event_queue'[Len(event_queue')].type # "Disconnect"
           /\ event_queue' # event_queue
           /\ Len(event_queue') >= Len(event_queue)) =>
              \E s \in Slots :
                  /\ sessions[s].status = "running" /\ sessions'[s].status = "running"
                  /\ sessions[s].state # "Stop"
                  /\ sessions[s].id = IdOf(event_queue'[Len(event_queue')].from)]_vars

\* a kicked session has forwarded its Kicked notification, left its loop and
\* sent its Disconnect, while the other session is still running
C21_Witness ==
    /\ last.op = "SessionExit"
    /\ \E s \in Slots :
          /\ sessions[s].status = "exited"
          /\ sessions[s].state = "Stop"
          /\ event_queue # <<>>
          /\ event_queue[Len(event_queue)] = DisconnectEv(sessions[s].id, s)
          /\ \E t \in Slots \ {s} : sessions[t].status = "running"

\* the session task has left its loop and sent its Disconnect
LoopLeft == pc = "done"

\* C22: once more than TIMED_OUT_SECONDS have passed since the last Ping, the
\* session leaves its loop and disconnects, unless a Ping resets the deadline
\* first; whatever else arrives, and when nothing arrives.
C22_HeartbeatTimeoutDisconnects ==
    (last_hb > TIMED_OUT_SECONDS) ~> (LoopLeft \/ last_hb <= TIMED_OUT_SECONDS)

\* the requests accepted in a state of the session: a room request or a room
\* list while Idle, every request while InGame
ValidIn(state, f) ==
    \/ state = "Idle" /\ f.tag \in {"RequestRoom", "ListRoom"}
    \/ state = "InGame"

\* the event ev carries the request f of connection id
Carries(ev, f, id) ==
    /\ ev.type \in {"RoomRequest", "InRoomMessage"}
    /\ IdOf(ev.from) = id
    /\ IF ev.type = "RoomRequest" THEN f.tag = "RequestRoom" /\ ev.req = f.req
                                   ELSE ev.msg = f

\* C23: the requests are handled in the order the reader yields them; each one
\* that is valid for the session's state (Ping, the keep-alive, aside) appends
\* exactly one event carrying it to the orchestrator's queue, and a request
\* that is not valid appends none.
C23_OneEventPerRequest ==
    [][(last'.op = "SelectClient" /\ last'.ev # DecodeErr /\ last'.ev.tag # "Ping") =>
          /\ last'.ev = Head(framed.inbound)
          /\ framed'.inbound = Tail(framed.inbound)
          /\ IF ValidIn(sessions[1].state, last'.ev)
             THEN /\ Len(event_queue') = Len(event_queue) + 1
                  /\ SubSeq(event_queue', 1, Len(event_queue)) = event_queue
                  /\ Carries(event_queue'[Len(event_queue')], last'.ev, sessions[1].id)
             ELSE event_queue' = event_queue]_vars

\* the frames the session has handled so far
Handled == arrived.frames - Len(framed.inbound)

\* C24: a notification waiting in the session's queue is eventually written to
\* the peer, and a frame waiting in the reader is eventually handled, unless
\* the session leaves its loop first.
C24_NeitherSourceStarves ==
    /\ \A n \in 0..MaxNotes :
          (sessions[1].queue # <<>> /\ Len(framed.written) = n)
              ~> (Len(framed.written) > n \/ LoopLeft)
    /\ \A k \in 0..MaxRequests :
          (framed.inbound # <<>> /\ Handled = k) ~> (Handled > k \/ LoopLeft)

\* the rooms that hold connection id as a member
RoomsOf(rooms, id) == {k \in DOMAIN rooms : id \in DOMAIN rooms[k].connected_sessions}

\* this step handles a RoomRequest of connection id, which is registered with
\* a room membership
SecondJoin(id) ==
    /\ last'.op = "RoomRequest"
    /\ IdOf(last'.ev.from) = id
    /\ id \in DOMAIN connected_users
    /\ connected_users[id].game.some

\* the step sent Kicked to connection id and the send succeeded
KickedSent(log, id) ==
    \E i \in DOMAIN log : log[i].to = id /\ log[i].msg.type = "Kicked" /\ log[i].ok

\* C25: a connection id is a member of at most one room, and a RoomRequest from
\* a connection that already has a room membership gets that connection sent
\* Kicked and removed from the registry and from its room, no room gaining a
\* member.
C25_SecondJoinKicks ==
    [][\A id \in Ids :
          /\ Cardinality(RoomsOf(game_rooms', id)) <= 1
          /\ SecondJoin(id) =>
                /\ KickedSent(sent', id)
                /\ id \notin DOMAIN connected_users'
                /\ RoomsOf(game_rooms', id) = {}
                /\ \A k \in DOMAIN game_rooms :
                      DOMAIN game_rooms'[k].connected_sessions
                          \subseteq DOMAIN game_rooms[k].connected_sessions]_vars

\* C25, with the session's state taken into account: a connection id is a
\* member of at most one room; a RoomRequest from a connection that already
\* has a room membership and whose session task is still running gets that
\* connection sent Kicked and removed from the registry and from its room; when
\* the session task has already returned, nothing is delivered, the registry
\* and the rooms stay as they are and the task's Disconnect is still to be
\* received; no room gains a member either way.
C25_SecondJoinKicksRunning ==
    [][\A id \in Ids :
          /\ Cardinality(RoomsOf(game_rooms', id)) <= 1
          /\ SecondJoin(id) =>
                /\ \A k \in DOMAIN game_rooms :
                      DOMAIN game_rooms'[k].connected_sessions
                          \subseteq DOMAIN game_rooms[k].connected_sessions
                /\ IF sessions[connected_users[id].sender].status = "running"
                   THEN /\ KickedSent(sent', id)
                        /\ id \notin DOMAIN connected_users'
                        /\ RoomsOf(game_rooms', id) = {}
                   ELSE /\ ~KickedSent(sent', id)
                        /\ connected_users' = connected_users
                        /\ game_rooms' = game_rooms
                        /\ DisconnectsOf(event_queue', connected_users[id].sender) # {}]_vars

\* a second RoomRequest has just got a member kicked out of the registry and
\* of the room
C25_Witness ==
    /\ last.op = "RoomRequest"
    /\ \E i \in DOMAIN sent :
          /\ sent[i].msg = Kicked("You are not allowed to join multiple game rooms.")
          /\ sent[i].ok
          /\ sent[i].to = IdOf(last.ev.from)
    /\ IdOf(last.ev.from) \notin DOMAIN connected_users
    /\ IdOf(last.ev.from) \notin Members
    /\ \E i \in DOMAIN sent : sent[i].msg.type = "PlayerDisconnect"

\* this step handles a Join of connection id, registered and in no room, that
\* names a room the registry does not hold
UnknownRoomJoin(id) ==
    /\ last'.op = "RoomRequest"
    /\ IdOf(last'.ev.from) = id
    /\ last'.ev.req.tag = "Join"
    /\ last'.ev.req.room_key \notin DOMAIN game_rooms
    /\ id \in DOMAIN connected_users
    /\ ~connected_users[id].game.some

\* the step delivered Kicked("RoomNotFound") to connection id
NotFoundSent(log, id) ==
    \E i \in DOMAIN log : log[i].to = id /\ log[i].msg = Kicked("RoomNotFound") /\ log[i].ok

\* C26: a Join naming a room that is not in the registry gets the requester
\* sent a Kicked that carries the error and removed from the registry; no room
\* changes and the orchestrator keeps running.
C26_UnknownRoomKicks ==
    [][\A id \in Ids :
          UnknownRoomJoin(id) =>
              /\ NotFoundSent(sent', id)
              /\ id \notin DOMAIN connected_users'
              /\ game_rooms' = game_rooms
              /\ ~panicked']_vars

\* C26, with the session's state taken into account: the requester is sent
\* Kicked("RoomNotFound") and removed from the registry if its session task is
\* still running; if the task has already returned nothing is delivered and
\* the registry is left as it is, the task's Disconnect being still to be
\* received; no room changes and the orchestrator keeps running either way.
C26_UnknownRoomKicksRunning ==
    [][\A id \in Ids :
          UnknownRoomJoin(id) =>
              /\ game_rooms' = game_rooms
              /\ ~panicked'
              /\ IF sessions[connected_users[id].sender].status = "running"
                 THEN NotFoundSent(sent', id) /\ id \notin DOMAIN connected_users'
                 ELSE /\ ~NotFoundSent(sent', id)
                      /\ connected_users' = connected_users
                      /\ DisconnectsOf(event_queue', connected_users[id].sender) # {}]_vars

\* a Join of a room that does not exist has just got its sender kicked
C26_Witness ==
    /\ last.op = "RoomRequest"
    /\ last.ev.req = [tag |-> "Join", room_key |-> NoRoomKey]
    /\ sent = <<[to |-> IdOf(last.ev.from), msg |-> Kicked("RoomNotFound"), ok |-> TRUE]>>
    /\ IdOf(last.ev.from) \notin DOMAIN connected_users
    /\ ~panicked

\* this step handles an InRoomMessage whose sender id is registered and has no
\* room membership
StrayRoomMessage(id) ==
    /\ last'.op = "InRoomMessage"
    /\ IdOf(last'.ev.from) = id
    /\ id \in DOMAIN connected_users
    /\ ~connected_users[id].game.some

\* C27: an InRoomMessage from a connected user without a room membership gets
\* that user sent Kicked and removed from the registry, and changes no room.
C27_StrayRoomMessageKicks ==
    [][\A id \in Ids :
          StrayRoomMessage(id) =>
              /\ KickedSent(sent', id)
              /\ id \notin DOMAIN connected_users'
              /\ game_rooms' = game_rooms]_vars

\* the values sent with send that a receive has not returned yet, oldest first
Normals(q) == SelectSeq(q, LAMBDA e : e.class = "Normal")

\* C28: the values sent with send leave the queue in the order they were sent
\* and each exactly once: a step either leaves them alone, or is a send that
\* appends one, or is a receive that returns the oldest and removes it; and a
\* receive that finds a value pending returns a value.
C28_SendOrderKept ==
    [][/\ \/ /\ Normals(Pending') = Normals(Pending)
             /\ ~(/\ received'.op \in ReceiveOps
                  /\ received' # received
                  /\ received'.value.some
                  /\ received'.value.v.class = "Normal")
          \/ /\ received'.op = "send"
             /\ Len(Normals(Pending')) = Len(Normals(Pending)) + 1
             /\ SubSeq(Normals(Pending'), 1, Len(Normals(Pending))) = Normals(Pending)
          \/ /\ received'.op \in ReceiveOps
             /\ Normals(Pending) # <<>>
             /\ received'.value = Some(Head(Normals(Pending)))
             /\ Normals(Pending') = Tail(Normals(Pending))
       /\ (received'.op \in ReceiveOps /\ Pending # <<>>) =>
             (received'.value.some /\ Len(Pending') = Len(Pending) - 1)]_vars

\* a receive has returned the first of two different values sent with send,
\* the second is still pending
C28_Witness ==
    /\ received.op \in ReceiveOps
    /\ received.value = Some([class |-> "Normal", value |-> 2])
    /\ Normals(Pending) = <<[class |-> "Normal", value |-> 1]>>

\* C29: a value sent with send_after is eventually returned by a receive of
\* the owning loop.
C29_TimerDelivered ==
    \A v \in EventValues, d \in Delays :
        (received = [op |-> "send_after", value |-> v, after |-> d])
            ~> (/\ received.op \in ReceiveOps
                /\ received.value = Some([class |-> "Timer", value |-> v]))

\* the decoder's buffer holds a header (more than the three bytes decode asks
\* for before it looks at any) whose first byte is none of 2, 4 and 8
BadLenTag == BLen(src) > 3 /\ BAt(src, 1) \notin {2, 4, 8}

\* C30: decode on a buffered header whose first byte is not 2, 4 or 8, the
\* value 0 included, returns an error (which ends the stream) and never
\* need-more-data.
C30_BadLenTagIsError ==
    [][(BadLenTag /\ Decodes) => decoded'.res = "Err"]_vars

\* the smallest of the widths 2, 4, 8 whose unsigned integers hold n
WidthFor(n) == IF n < 65536 THEN 2 ELSE IF n \div 65536 < 65536 THEN 4 ELSE 8

RECURSIVE ShiftRight(_, _)
\* n without its k low-order bytes
ShiftRight(n, k) == IF k = 0 THEN n ELSE ShiftRight(n \div 256, k - 1)

\* an encode step: one more message in flight, its bytes appended to the connection
Encodes == in_flight' # in_flight /\ Len(in_flight') = Len(in_flight) + 1

\* C31: encode appends to the buffer, for a payload of L bytes, the len_tag 2
\* when L fits in 16 bits, 4 when it fits in 32 but not 16 bits and 8
\* otherwise, then L as a big-endian integer of that many bytes, then exactly
\* the L payload bytes, and leaves what the buffer held in front of them.
C31_EncodeLayout ==
    [][Encodes =>
        LET msg == in_flight'[Len(in_flight')]
            payload == Serialize(msg)
            L == msg.size
            w == WidthFor(L)
            written == BDrop(wire', BLen(wire))
        IN  /\ BTake(wire', BLen(wire)) = wire
            /\ BLen(written) = 1 + w + L
            /\ BAt(written, 1) = w
            /\ \A i \in 1..w : BAt(written, 1 + i) = ShiftRight(L, w - i) % 256
            /\ BLen(payload) = L
            /\ BDrop(written, 1 + w) = payload]_vars

\* a payload of 65536 bytes, the first length that needs 32 bits, is on the
\* connection behind the len_tag 4
C31_Witness ==
    /\ src = <<>>
    /\ Len(in_flight) = 1
    /\ in_flight[1].size = 65536
    /\ BLen(wire) = 1 + 4 + 65536
    /\ BAt(wire, 1) = 4

\* a string with its ASCII letters in lower case
LowerStr(s) == [i \in DOMAIN s |-> ToLower(s[i])]

\* the strings one edit away from s: a character deleted, a character
\* replaced, a character inserted
EditsOf(s) ==
    LET letters == {ToLower(ch) : ch \in LevAlphabet}
    IN  {SubSeq(s, 1, i - 1) \o SubSeq(s, i + 1, Len(s)) : i \in 1..Len(s)}
        \cup {[s EXCEPT ![i] = ch] : i \in 1..Len(s), ch \in letters}
        \cup {SubSeq(s, 1, i) \o <<ch>> \o SubSeq(s, i + 1, Len(s)) :
                 i \in 0..(IF Len(s) <= MaxWord THEN Len(s) ELSE -1), ch \in letters}

RECURSIVE WithinEdits(_, _)
\* the strings at most k edits away from x
WithinEdits(x, k) ==
    IF k = 0 THEN {x}
    ELSE LET near == WithinEdits(x, k - 1)
         IN  near \cup UNION {EditsOf(s) : s \in near}

\* the edit distance: the least number of edits that turn x into y
EditDistance(x, y) ==
    CHOOSE k \in 0..(2 * MaxWord) :
        /\ y \in WithinEdits(x, k)
        /\ k > 0 => y \notin WithinEdits(x, k - 1)

\* C32: levenshtein_distance(a, b) is the edit distance between a and b
\* compared without regard to ASCII case; it is 0 exactly when a and b are
\* equal ignoring case.
C32_LevenshteinIsEditDistance ==
    lev.op = "levenshtein_distance" =>
        /\ lev.dist = EditDistance(LowerStr(lev.a), LowerStr(lev.b))
        /\ lev.dist = 0 <=> LowerStr(lev.a) = LowerStr(lev.b)

\* the distance between "aBa" and "b" has been computed: two deletions, the
\* characters that differ only in case costing nothing
C32_Witness ==
    /\ lev.op = "levenshtein_distance"
    /\ lev.a = <<"a", "B", "a">>
    /\ lev.b = <<"b">>
    /\ lev.dist = 2

\* the hint map of the turn and the number of its characters that are not whitespace
HintsOf(t) == t.state.game.turn.word.hints
Revealed(t) == Cardinality({i \in DOMAIN HintsOf(t) : HintsOf(t)[i] # " "})
HintCapOf(t) == t.state.game.turn.word.word_len \div 2

\* C33: for a secret word of length N, after any number of reveal_random_char
\* calls during one turn at most N/2 non-whitespace characters are revealed,
\* and a call that would go over that leaves the hint map as it is.
C33_HintCap ==
    /\ [](Revealed(skribbl) <= HintCapOf(skribbl))
    /\ [][Revealed(skribbl) + 1 > HintCapOf(skribbl) =>
              HintsOf(skribbl') = HintsOf(skribbl)]_vars

\* the time bonus as the scoring rule states it: 50 plus half of the share of
\* the round's duration that remains, in percent, rounded down
ScoreIncrease(remaining_time, round_duration) ==
    50 + (remaining_time * 100) \div (round_duration * 2)

TurnStarts ==
    /\ NewRoom.state = "Playing"
    /\ \/ Room.state # "Playing"
       \/ NewRoom.skribbl.game.turn.current_round # Room.skribbl.game.turn.current_round
       \/ NewRoom.skribbl.game.turn.word # Room.skribbl.game.turn.word

C36_RegistryMatchesRooms ==
    ~panicked =>
        \A k \in DOMAIN game_rooms, id \in Ids :
            (id \in DOMAIN game_rooms[k].connected_sessions)
                <=> /\ id \in DOMAIN connected_users
                    /\ connected_users[id].game.some
                    /\ connected_users[id].game.v.room_key = k

\* a join has just been handled: one connection is a member of room "main"
\* and registered as such, the other is registered and in no room
C36_Witness ==
    /\ last.op = "RoomRequest"
    /\ ~panicked
    /\ \E id \in Ids, other \in Ids :
          /\ id \in DOMAIN game_rooms["main"].connected_sessions
          /\ id \in DOMAIN connected_users
          /\ connected_users[id].game.some
          /\ connected_users[id].game.v.room_key = "main"
          /\ other \in DOMAIN connected_users
          /\ ~connected_users[other].game.some
          /\ other \notin DOMAIN game_rooms["main"].connected_sessions

\* member id of a Playing room cannot guess: it draws, or has solved the word
NonGuessing(room, id) ==
    /\ room.state = "Playing"
    /\ id \in DOMAIN room.connected_sessions
    /\ ~DrawerUndefined(room)
    /\ \/ is_drawing(room.skribbl, id)
       \/ room.connected_sessions[id].player.solved_current_round

\* C37: while the room is Playing, a chat message of the drawer or of a member
\* who has solved is sent only to members who draw or have solved, never to a
\* member who can still guess.
C37_NonGuesserChatHidden ==
    [][\A id \in PlayerIds, text \in ChatTexts :
           (NonGuessing(Room, id) /\ ChatHandled(id, text)) =>
               \A i \in DOMAIN sent' : NonGuessing(Room, sent'[i].to)]_vars

\* the drawer's chat message has just been handled in a room of three: it
\* was sent to the drawer and to nobody else
C37_Witness ==
    /\ last.op = "on_chat_msg"
    /\ Cardinality(Members) = NumPlayers
    /\ NonGuessing(Room, IdOf(last.ev.from))
    /\ is_drawing(Room.skribbl, IdOf(last.ev.from))
    /\ sent = << [to |-> IdOf(last.ev.from),
                  msg |-> ChatUser(last.ev.from, last.ev.msg.text),
                  ok |-> TRUE] >>

\* the TurnStart messages sent to member m in this step
TurnStartsTo(log, m) ==
    SelectSeq(log, LAMBDA e : e.to = m /\ e.msg.type = "TurnStart")

\* C38: whenever the drawer of a Playing room changes, at a round start or
\* when the turn passes within a round after the drawer left, every member is
\* sent exactly one TurnStart for the new turn: the new drawer with the word
\* in plaintext, every other member with the Guess form.
C38_TurnStartAnnounced ==
    [][TurnStarts =>
           LET turn == NewRoom.skribbl.game.turn
               drawer == get_drawing_player(NewRoom.skribbl)
           IN  \A m \in DOMAIN NewRoom.connected_sessions :
                   /\ Len(TurnStartsTo(sent', m)) = 1
                   /\ TurnStartsTo(sent', m)[1].msg =
                          IF m = drawer
                          THEN TurnStart([turn EXCEPT !.word = DrawWord(NewRoom.skribbl.current_word)])
                          ELSE TurnStart(turn)]_vars

\* the PlayerConnect messages for player u sent to member m in this step
ConnectsTo(log, m, u) ==
    SelectSeq(log, LAMBDA e : e.to = m /\ e.msg.type = "PlayerConnect" /\ e.msg.player.name = u)

\* C39: when a join is handled, the first message sent to the joiner is
\* JoinRoom, before any Chat, RoomStateChange or TurnStart; the joiner is sent
\* no PlayerConnect for itself; every member already in the room is sent
\* exactly one PlayerConnect for the joiner.
C39_JoinRoomFirst ==
    [][JoinHandled =>
           LET u == last'.ev.from
               id == IdOf(u)
               mine == SentTo(sent', id)
           IN  /\ id \in DOMAIN NewRoom.connected_sessions
               /\ mine # <<>>
               /\ mine[1].msg.type = "JoinRoom"
               /\ mine[1].msg.username = u
               /\ \A i \in 2..Len(mine) : mine[i].msg.type # "JoinRoom"
               /\ ConnectsTo(sent', id, u) = <<>>
               /\ \A m \in (DOMAIN Room.connected_sessions) \ {id} :
                      /\ Len(ConnectsTo(sent', m, u)) = 1
                      /\ ConnectsTo(sent', m, u)[1].msg = PlayerConnect(NewPlayer(u))]_vars

\* a third player has just joined a Playing room: JoinRoom was the first
\* message sent to it and the session took it
C39_Witness ==
    /\ last.op = "connect"
    /\ Room.state = "Playing"
    /\ Cardinality(Members) = NumPlayers
    /\ LET mine == SentTo(sent, IdOf(last.ev.from))
       IN  /\ Len(mine) >= 2
           /\ mine[1].msg.type = "JoinRoom"
           /\ mine[1].ok
    /\ \A m \in Members \ {IdOf(last.ev.from)} :
           Len(ConnectsTo(sent, m, last.ev.from)) = 1

\* C40: after the orchestrator has handled an event, a room without an owner
\* that has at least REQUIRED_PLAYERS members is not Waiting: a game that ends
\* with its rounds exhausted while members remain is followed by a new game
\* without a further join.
C40_EnoughPlayersNotWaiting ==
    (/\ ~panicked
     /\ ~Room.owner_id.some
     /\ Cardinality(Members) >= REQUIRED_PLAYERS) => Room.state # "Waiting"

====
